---- MODULE Spec2Model ----
(***************************************************************************)
(* Trial-balance file reader (src/file_handlers.py): format detection,     *)
(* the per-format parsers, validation and numeric clean-up, modelled on    *)
(* byte sequences.  A byte is a number 0..255, a decoded text a sequence   *)
(* of code points, a parsed table a record of column names and rows.       *)
(***************************************************************************)
EXTENDS Integers, Sequences, FiniteSets, TLC

\* ------------------------------------------------------------------------
\* Characters used by the code, by code point.
CH ==
  [ tab |-> 9, lf |-> 10, cr |-> 13, sp |-> 32, quote |-> 34, amp |-> 38,
    plus |-> 43, comma |-> 44, minus |-> 45, dot |-> 46, slash |-> 47,
    zero |-> 48, nine |-> 57, colon |-> 58, lt |-> 60, gt |-> 62,
    qmark |-> 63, bang |-> 33, bigA |-> 65, bigZ |-> 90, lbrack |-> 91,
    bslash |-> 92, rbrack |-> 93, under |-> 95, a |-> 97, z |-> 122,
    lbrace |-> 123, rbrace |-> 125, bigE |-> 69, e |-> 101 ]

Min(x, y) == IF x <= y THEN x ELSE y

Max(x, y) == IF x >= y THEN x ELSE y

\* s[from..] (1-based); the empty sequence when from is past the end.
Drop(s, from) == SubSeq(s, from, Len(s))

\* bytes.startswith(prefix) / str.startswith(prefix)
StartsWith(s, prefix) ==
  /\ Len(s) >= Len(prefix)
  /\ SubSeq(s, 1, Len(prefix)) = prefix

\* Number of occurrences of character c in s: str.count(c).
Count(s, c) == Cardinality({i \in 1..Len(s) : s[i] = c})

\* The end of the run of characters satisfying P that starts at index i:
\* the least j >= i with j past the end of s or s[j] not satisfying P.
RunEnd(s, i, P(_)) ==
  IF i > Len(s) THEN i
  ELSE CHOOSE j \in i..(Len(s) + 1) :
         /\ j > Len(s) \/ ~P(s[j])
         /\ \A k \in i..(j - 1) : P(s[k])

Reverse(s) == [i \in 1..Len(s) |-> s[Len(s) + 1 - i]]

\* F applied to a value computed once: the local name of an intermediate
\* result that the code keeps in a variable.
With(v, F(_)) == F(v)

\* str.split(sep) for a one-character sep: the pieces between separators,
\* empty pieces kept.
RECURSIVE SplitFrom(_, _, _)
SplitFrom(s, sep, start) ==
  LET next == RunEnd(s, start, LAMBDA c : c # sep)
  IN IF next > Len(s) THEN <<SubSeq(s, start, Len(s))>>
     ELSE <<SubSeq(s, start, next - 1)>> \o SplitFrom(s, sep, next + 1)

Split(s, sep) == SplitFrom(s, sep, 1)

\* filter(None, lines): the non-empty lines, in order.
RECURSIVE NonEmpty(_)
NonEmpty(lines) ==
  IF lines = <<>> THEN <<>>
  ELSE (IF Head(lines) # <<>> THEN <<Head(lines)>> ELSE <<>>)
       \o NonEmpty(Tail(lines))

\* ------------------------------------------------------------------------
\* bytes.decode('utf-8'), strict.  The result is [ok, str]: ok is FALSE
\* where Python raises UnicodeDecodeError, str the code points otherwise.
IsCont(b) == b >= 128 /\ b <= 191

\* Number of bytes of the character that starts with lead byte b (0: b
\* cannot start a character).
Utf8Width(b) ==
  IF b < 128 THEN 1
  ELSE IF b >= 194 /\ b <= 223 THEN 2
  ELSE IF b >= 224 /\ b <= 239 THEN 3
  ELSE IF b >= 240 /\ b <= 244 THEN 4
  ELSE 0

\* The second byte's range depends on the lead byte (no overlong forms, no
\* surrogates, nothing above U+10FFFF).
SecondOK(lead, b) ==
  IF lead = 224 THEN b >= 160 /\ b <= 191
  ELSE IF lead = 237 THEN b >= 128 /\ b <= 159
  ELSE IF lead = 240 THEN b >= 144 /\ b <= 191
  ELSE IF lead = 244 THEN b >= 128 /\ b <= 143
  ELSE IsCont(b)

Utf8CharOK(bs, i) ==
  LET w == Utf8Width(bs[i])
  IN /\ w > 0
     /\ i + w - 1 <= Len(bs)
     /\ w >= 2 => SecondOK(bs[i], bs[i + 1])
     /\ \A k \in 2..(w - 1) : IsCont(bs[i + k])

Utf8CodePoint(bs, i) ==
  LET w == Utf8Width(bs[i])
  IN IF w = 1 THEN bs[i]
     ELSE IF w = 2 THEN (bs[i] - 192) * 64 + (bs[i + 1] - 128)
     ELSE IF w = 3 THEN (bs[i] - 224) * 4096 + (bs[i + 1] - 128) * 64
                        + (bs[i + 2] - 128)
     ELSE (bs[i] - 240) * 262144 + (bs[i + 1] - 128) * 4096
          + (bs[i + 2] - 128) * 64 + (bs[i + 3] - 128)

\* The decoded text: every byte that is not a continuation byte starts a
\* well-formed character and every continuation byte belongs to one.
Utf8Decode(bs) ==
  LET starts == {i \in 1..Len(bs) : ~IsCont(bs[i])}
      ok == /\ \A i \in starts : Utf8CharOK(bs, i)
            /\ \A i \in (1..Len(bs)) \ starts :
                 \E j \in starts : j < i /\ i < j + Utf8Width(bs[j])
      first == SelectSeq([i \in 1..Len(bs) |-> i], LAMBDA i : i \in starts)
  IN IF \A i \in 1..Len(bs) : bs[i] < 128
     THEN [ok |-> TRUE, str |-> bs]
     ELSE IF ~ok THEN [ok |-> FALSE, str |-> <<>>]
     ELSE [ok |-> TRUE,
           str |-> [k \in 1..Len(first) |-> Utf8CodePoint(bs, first[k])]]

\* ------------------------------------------------------------------------
\* str.strip(): Python's whitespace, by code point.
IsSpace(c) ==
  \/ c >= 9 /\ c <= 13
  \/ c >= 28 /\ c <= 32
  \/ c \in {133, 160, 5760, 8232, 8233, 8239, 8287, 12288}
  \/ c >= 8192 /\ c <= 8202

LStrip(s) == Drop(s, RunEnd(s, 1, IsSpace))

RStrip(s) == SubSeq(s, 1, Len(s) + 1 - RunEnd(Reverse(s), 1, IsSpace))

Strip(s) == RStrip(LStrip(s))

\* ------------------------------------------------------------------------
\* json.loads(text): Python's JSON scanner on a decoded text.  A value is
\*   [t |-> "obj", items |-> <<[k |-> key, v |-> value], ...>>]
\*   [t |-> "arr", items |-> <<value, ...>>]
\*   [t |-> "str", s |-> code points]
\*   [t |-> "num", lex |-> the number as written]
\*   [t |-> "lit", s |-> "true" | "false" | "null" | "NaN" | "Infinity"
\*                       | "-Infinity"]
\* and a scan result [ok, next, val]: next is the index after the value.
JsonFail == [ok |-> FALSE, next |-> 0, val |-> [t |-> "none"]]

JsonLiterals ==
  << [txt |-> <<116, 114, 117, 101>>, name |-> "true"],
     [txt |-> <<102, 97, 108, 115, 101>>, name |-> "false"],
     [txt |-> <<110, 117, 108, 108>>, name |-> "null"],
     [txt |-> <<78, 97, 78>>, name |-> "NaN"],
     [txt |-> <<73, 110, 102, 105, 110, 105, 116, 121>>, name |-> "Infinity"],
     [txt |-> <<45, 73, 110, 102, 105, 110, 105, 116, 121>>,
      name |-> "-Infinity"] >>

IsDigit(c) == c >= CH.zero /\ c <= CH.nine

IsJsonWs(c) == c \in {CH.sp, CH.tab, CH.lf, CH.cr}

SkipJsonWs(s, i) == RunEnd(s, i, IsJsonWs)

\* Index after the run of digits that starts at i (i itself when none).
DigitsEnd(s, i) == RunEnd(s, i, IsDigit)

\* NUMBER_RE = (-?(?:0|[1-9]\d*))(\.\d+)?([eE][-+]?\d+)? matched at i: the
\* index after the match, or 0 when the integer part does not match.
JsonNumberEnd(s, i) ==
  With(IF i <= Len(s) /\ s[i] = CH.minus THEN i + 1 ELSE i, LAMBDA j :
  With(IF j > Len(s) \/ ~IsDigit(s[j]) THEN 0
       ELSE IF s[j] = CH.zero THEN j + 1
       ELSE DigitsEnd(s, j), LAMBDA intEnd :
  With(IF intEnd > 0 /\ intEnd <= Len(s) /\ s[intEnd] = CH.dot
       THEN DigitsEnd(s, intEnd + 1) ELSE 0, LAMBDA fracDigits :
  With(IF fracDigits > intEnd + 1 THEN fracDigits ELSE intEnd,
       LAMBDA fracEnd :
  With(IF fracEnd > 0 /\ fracEnd + 1 <= Len(s)
          /\ s[fracEnd + 1] \in {CH.plus, CH.minus}
       THEN fracEnd + 2 ELSE fracEnd + 1, LAMBDA signEnd :
  With(IF fracEnd > 0 /\ fracEnd <= Len(s)
          /\ s[fracEnd] \in {CH.e, CH.bigE}
       THEN DigitsEnd(s, signEnd) ELSE 0, LAMBDA expDigits :
    IF expDigits > signEnd THEN expDigits ELSE fracEnd))))))

IsHex(c) ==
  IsDigit(c) \/ (c >= 65 /\ c <= 70) \/ (c >= 97 /\ c <= 102)

\* A string body scanned from i (the index after the opening quote) to its
\* closing quote: strict mode rejects control characters, a backslash
\* takes one of the simple escapes or uXXXX.  The string's characters are
\* kept as written.
RECURSIVE JsonStringFrom(_, _, _)
JsonStringFrom(s, i, start) ==
  With(RunEnd(s, i, LAMBDA c : c >= 32 /\ c \notin {CH.quote, CH.bslash}),
       LAMBDA j :
    IF j > Len(s) \/ s[j] < 32 THEN JsonFail
    ELSE IF s[j] = CH.quote
         THEN [ok |-> TRUE, next |-> j + 1,
               val |-> [t |-> "str", s |-> SubSeq(s, start, j - 1)]]
    ELSE IF j + 1 > Len(s) THEN JsonFail
    ELSE IF s[j + 1] \in {34, 92, 47, 98, 102, 110, 114, 116}
         THEN JsonStringFrom(s, j + 2, start)
    ELSE IF s[j + 1] = 117 /\ j + 5 <= Len(s)
            /\ \A k \in 2..5 : IsHex(s[j + k])
         THEN JsonStringFrom(s, j + 6, start)
    ELSE JsonFail)

JsonLiteralAt(s, i) ==
  With({k \in 1..Len(JsonLiterals) :
          StartsWith(Drop(s, i), JsonLiterals[k].txt)}, LAMBDA hits :
    IF hits = {} THEN JsonFail
    ELSE With(CHOOSE k \in hits : TRUE, LAMBDA k :
           [ok |-> TRUE, next |-> i + Len(JsonLiterals[k].txt),
            val |-> [t |-> "lit", s |-> JsonLiterals[k].name]]))

RECURSIVE JsonValue(_, _)
RECURSIVE JsonArrayRest(_, _, _)
RECURSIVE JsonObjectRest(_, _, _)

\* scan_once: the value that starts at index i (no leading whitespace).
JsonValue(s, i) ==
  IF i > Len(s) THEN JsonFail
  ELSE IF s[i] = CH.quote THEN JsonStringFrom(s, i + 1, i + 1)
  ELSE IF s[i] \in {CH.lbrace, CH.lbrack}
       THEN With(SkipJsonWs(s, i + 1), LAMBDA j :
              IF j <= Len(s) /\ s[i] = CH.lbrace /\ s[j] = CH.rbrace
              THEN [ok |-> TRUE, next |-> j + 1,
                    val |-> [t |-> "obj", items |-> <<>>]]
              ELSE IF j <= Len(s) /\ s[i] = CH.lbrack /\ s[j] = CH.rbrack
              THEN [ok |-> TRUE, next |-> j + 1,
                    val |-> [t |-> "arr", items |-> <<>>]]
              ELSE IF s[i] = CH.lbrace THEN JsonObjectRest(s, j, <<>>)
              ELSE JsonArrayRest(s, j, <<>>))
  ELSE With(JsonLiteralAt(s, i), LAMBDA lit :
         IF lit.ok THEN lit
         ELSE With(JsonNumberEnd(s, i), LAMBDA end :
                IF end > 0
                THEN [ok |-> TRUE, next |-> end,
                      val |-> [t |-> "num", lex |-> SubSeq(s, i, end - 1)]]
                ELSE JsonFail))

\* JSONArray after '[': a value at i, then ',' and another, or ']'.
JsonArrayRest(s, i, acc) ==
  With(JsonValue(s, i), LAMBDA v :
  With(SkipJsonWs(s, v.next), LAMBDA j :
    IF ~v.ok \/ j > Len(s) THEN JsonFail
    ELSE IF s[j] = CH.rbrack
         THEN [ok |-> TRUE, next |-> j + 1,
               val |-> [t |-> "arr", items |-> Append(acc, v.val)]]
    ELSE IF s[j] = CH.comma
         THEN JsonArrayRest(s, SkipJsonWs(s, j + 1), Append(acc, v.val))
    ELSE JsonFail))

\* JSONObject after '{': "key" : value at i, then ',' and another, or '}'.
JsonObjectRest(s, i, acc) ==
  IF i > Len(s) \/ s[i] # CH.quote THEN JsonFail
  ELSE
    With(JsonStringFrom(s, i + 1, i + 1), LAMBDA k :
    With(SkipJsonWs(s, k.next), LAMBDA c :
      IF ~k.ok \/ c > Len(s) \/ s[c] # CH.colon THEN JsonFail
      ELSE
        With(JsonValue(s, SkipJsonWs(s, c + 1)), LAMBDA v :
        With(SkipJsonWs(s, v.next), LAMBDA j :
        With([k |-> k.val.s, v |-> v.val], LAMBDA item :
          IF ~v.ok \/ j > Len(s) THEN JsonFail
          ELSE IF s[j] = CH.rbrace
               THEN [ok |-> TRUE, next |-> j + 1,
                     val |-> [t |-> "obj", items |-> Append(acc, item)]]
          ELSE IF s[j] = CH.comma
               THEN JsonObjectRest(s, SkipJsonWs(s, j + 1),
                                   Append(acc, item))
          ELSE JsonFail)))))

\* The scanner calls itself once for every array it enters; CPython stops
\* it with RecursionError when the calls are as deep as the interpreter's
\* recursion limit (sys.getrecursionlimit(), 1000; the program never
\* changes it).
RecursionLimit == 1000

\* The text opens RecursionLimit arrays or more before anything else: it
\* starts with that many '[', with or without blanks between them.  The
\* scanner has entered them all when it reads what follows.
JsonTooDeep(s) ==
  With(SkipJsonWs(s, 1), LAMBDA i :
  With(RunEnd(s, i, LAMBDA c : c = CH.lbrack \/ IsJsonWs(c)), LAMBDA j :
    Count(SubSeq(s, i, j - 1), CH.lbrack) >= RecursionLimit))

\* json.loads(text): [ok, val, error]; ok is FALSE where an exception is
\* raised and error is its type: JSONDecodeError (no value, or extra data
\* after it) or RecursionError.
JsonLoads(s) ==
  IF JsonTooDeep(s)
  THEN [ok |-> FALSE, val |-> [t |-> "none"], error |-> "RecursionError"]
  ELSE
    With(JsonValue(s, SkipJsonWs(s, 1)), LAMBDA v :
      IF v.ok /\ SkipJsonWs(s, v.next) > Len(s)
      THEN [ok |-> TRUE, val |-> v.val, error |-> "none"]
      ELSE [ok |-> FALSE, val |-> [t |-> "none"],
            error |-> "JSONDecodeError"])

\* ------------------------------------------------------------------------
\* xml.etree.ElementTree on a decoded text, for documents made of elements
\* and character data (no declaration, attribute, comment, CDATA section,
\* processing instruction or entity reference: '&', "<!" and "<?" are not
\* well-formed here, names are ASCII and a ':' in a name is an unbound
\* prefix).  An element is [tag, text, children]; text is the character
\* data before the first child, <<>> where ElementTree has None.
XmlFail == [ok |-> FALSE, next |-> 0, el |-> [tag |-> <<>>]]

IsXmlWs(c) == c \in {CH.sp, CH.tab, CH.lf, CH.cr}

IsLetter(c) == (c >= CH.bigA /\ c <= CH.bigZ) \/ (c >= CH.a /\ c <= CH.z)

IsNameStart(c) == IsLetter(c) \/ c = CH.under

IsNameChar(c) == IsNameStart(c) \/ IsDigit(c) \/ c \in {CH.minus, CH.dot}

\* Character data: the XML Char production without markup.
IsXmlText(c) ==
  /\ c >= 32 \/ c \in {CH.tab, CH.lf, CH.cr}
  /\ c \notin {CH.lt, CH.amp}

SkipXmlWs(s, i) == RunEnd(s, i, IsXmlWs)

NameCharsEnd(s, i) == RunEnd(s, i, IsNameChar)

\* Index after the name that starts at i, or 0 when no name starts there.
XmlNameEnd(s, i) ==
  IF i <= Len(s) /\ IsNameStart(s[i]) THEN NameCharsEnd(s, i + 1) ELSE 0

\* Index after the character data that starts at i; 0 when it holds "]]>".
XmlTextEnd(s, i) ==
  With(RunEnd(s, i, IsXmlText), LAMBDA j :
    IF \E k \in i..(j - 1) :
         s[k] = CH.gt /\ k >= 3 /\ s[k - 1] = CH.rbrack
         /\ s[k - 2] = CH.rbrack
    THEN 0 ELSE j)

RECURSIVE XmlElement(_, _)
RECURSIVE XmlContent(_, _, _, _, _)

\* The element whose '<' is at index i.
XmlElement(s, i) ==
  With(XmlNameEnd(s, i + 1), LAMBDA n :
  With(SkipXmlWs(s, n), LAMBDA j :
    IF i > Len(s) \/ s[i] # CH.lt \/ n = 0 \/ j > Len(s) THEN XmlFail
    ELSE IF s[j] = CH.gt
         THEN XmlContent(s, j + 1, SubSeq(s, i + 1, n - 1), <<>>, <<>>)
    ELSE IF s[j] = CH.slash /\ j + 1 <= Len(s) /\ s[j + 1] = CH.gt
         THEN [ok |-> TRUE, next |-> j + 2,
               el |-> [tag |-> SubSeq(s, i + 1, n - 1), text |-> <<>>,
                       children |-> <<>>]]
    ELSE XmlFail))

\* The content of element tag from index i up to its end tag; text is the
\* element's leading character data, kids the children read so far.
XmlContent(s, i, tag, text, kids) ==
  With(XmlTextEnd(s, i), LAMBDA t :
  With(IF kids = <<>> THEN SubSeq(s, i, t - 1) ELSE text, LAMBDA lead :
    IF t = 0 \/ t + 1 > Len(s) \/ s[t] # CH.lt THEN XmlFail
    ELSE IF s[t + 1] = CH.slash
         THEN With(XmlNameEnd(s, t + 2), LAMBDA n :
              With(SkipXmlWs(s, n), LAMBDA j :
                IF n = 0 \/ SubSeq(s, t + 2, n - 1) # tag
                   \/ j > Len(s) \/ s[j] # CH.gt
                THEN XmlFail
                ELSE [ok |-> TRUE, next |-> j + 1,
                      el |-> [tag |-> tag, text |-> lead,
                              children |-> kids]]))
    ELSE With(XmlElement(s, t), LAMBDA c :
           IF ~c.ok THEN XmlFail
           ELSE XmlContent(s, c.next, tag, lead, Append(kids, c.el)))))

\* ET.fromstring(text) / ET.parse(file).getroot(): [ok, el]; ok is FALSE
\* where ParseError is raised.
XmlParse(s) ==
  With(XmlElement(s, SkipXmlWs(s, 1)), LAMBDA r :
    IF r.ok /\ SkipXmlWs(s, r.next) > Len(s)
    THEN [ok |-> TRUE, el |-> r.el]
    ELSE [ok |-> FALSE, el |-> [tag |-> <<>>]])

\* ------------------------------------------------------------------------
\* csv.Sniffer().sniff(text) for a text without quote characters, where
\* _guess_quote_and_delimiter finds nothing and _guess_delimiter decides.

\* The frequency of c that most of the lines share and the number of lines
\* that have it less the number that do not (modes[c] after adjustment):
\* c is a candidate when that frequency and that margin are positive and
\* the margin is at least the consistency (1.0 down to 0.91 in steps of
\* 0.01) times the number of lines.
IsDelimiterCandidate(lines, c) ==
  \E f \in {Count(lines[i], c) : i \in 1..Len(lines)} :
    LET m == Cardinality({i \in 1..Len(lines) : Count(lines[i], c) = f})
        total == Len(lines)
    IN /\ f > 0
       /\ 2 * m - total > 0
       /\ 100 * (2 * m - total) >= 91 * total

\* The characters of the 7-bit table (chr(0)..chr(126)) that occur in the
\* lines; a character that occurs in no line has only frequency 0 and is
\* skipped.
SniffChars(lines) ==
  UNION {{lines[i][j] : j \in 1..Len(lines[i])} : i \in 1..Len(lines)}
    \cap (0..126)

\* _guess_delimiter: the non-empty lines are read ten at a time; delims
\* is filled the first time some character is a candidate on the lines
\* read so far and is never emptied, so a delimiter is returned exactly
\* when that happens after some chunk.
GuessDelimiterFinds(text) ==
  With(NonEmpty(Split(text, CH.lf)), LAMBDA data :
  With(Min(10, Len(data)), LAMBDA chunkLength :
    \E iteration \in 1..Len(data) :
      /\ chunkLength * (iteration - 1) < Len(data)
      /\ With(SubSeq(data, 1, Min(chunkLength * iteration, Len(data))),
              LAMBDA seen :
           \E c \in SniffChars(seen) : IsDelimiterCandidate(seen, c))))

\* sniff raises csv.Error("Could not determine delimiter") when no
\* delimiter is found and returns a dialect otherwise.
SnifferSniff(text) == GuessDelimiterFinds(text)

\* ------------------------------------------------------------------------
\* detect_format (src/file_handlers.py:9-57).
ZipMagic == <<80, 75, 3, 4>>

OleMagic == <<208, 207, 17, 224>>

\* Lines 19-24: the stripped text starts with '{' or '[' and json.loads of
\* the stripped text succeeds.
JsonCheck(content_str) ==
  LET t == Strip(content_str)
  IN /\ StartsWith(t, <<CH.lbrace>>) \/ StartsWith(t, <<CH.lbrack>>)
     /\ JsonLoads(t).ok

\* Lines 20-24: json.loads raises an exception other than JSONDecodeError,
\* which neither the inner nor the outer except clause of detect_format
\* catches.
JsonCheckRaises(content_str) ==
  LET t == Strip(content_str)
  IN /\ StartsWith(t, <<CH.lbrace>>) \/ StartsWith(t, <<CH.lbrack>>)
     /\ JsonLoads(t).error = "RecursionError"

\* Lines 27-32: the stripped text starts with "<?xml" or '<' and
\* ET.fromstring of the text as decoded (not stripped) succeeds.
XmlCheck(content_str) ==
  LET t == Strip(content_str)
  IN /\ \/ StartsWith(t, <<CH.lt, CH.qmark, 120, 109, 108>>)
        \/ StartsWith(t, <<CH.lt>>)
     /\ XmlParse(content_str).ok

\* Lines 35-40: the sniffer returns a dialect; any exception is swallowed.
CsvCheck(content_str) == SnifferSniff(content_str)

\* Line 46.
ExcelCheck(content_start) ==
  StartsWith(content_start, ZipMagic) \/ StartsWith(content_start, OleMagic)

\* The lines detect_format compares (line 51: [:5]).
SampledLines == 5

\* Lines 51-52: among the first five lines, every line after the first
\* that is not blank is as long as the first line.
FixedWidthCheck(content_str) ==
  LET all == Split(content_str, CH.lf)
      lines == SubSeq(all, 1, Min(SampledLines, Len(all)))
  IN \A i \in 2..Len(lines) :
       Strip(lines[i]) # <<>> => Len(lines[i]) = Len(lines[1])

\* A detect_format that looks for the magic before it sniffs a delimiter.
DetectTagMagicFirst(content_start) ==
  With(Utf8Decode(content_start), LAMBDA dec :
    IF dec.ok /\ JsonCheck(dec.str) THEN "json"
    ELSE IF dec.ok /\ XmlCheck(dec.str) THEN "xml"
    ELSE IF ExcelCheck(content_start) THEN "excel"
    ELSE IF dec.ok /\ CsvCheck(dec.str) THEN "csv"
    ELSE IF dec.ok /\ FixedWidthCheck(dec.str) THEN "fixed-width"
    ELSE "unknown")

\* A detect_format that compares line lengths before it sniffs a delimiter.
DetectTagFixedWidthFirst(content_start) ==
  With(Utf8Decode(content_start), LAMBDA dec :
    IF dec.ok /\ JsonCheck(dec.str) THEN "json"
    ELSE IF dec.ok /\ XmlCheck(dec.str) THEN "xml"
    ELSE IF dec.ok /\ FixedWidthCheck(dec.str) THEN "fixed-width"
    ELSE IF dec.ok /\ CsvCheck(dec.str) THEN "csv"
    ELSE IF ExcelCheck(content_start) THEN "excel"
    ELSE "unknown")

\* A detect_format that compares the lines of the bytes themselves when
\* they are no text.
DetectTagBytesAsLines(content_start) ==
  With(Utf8Decode(content_start), LAMBDA dec :
    IF dec.ok /\ JsonCheck(dec.str) THEN "json"
    ELSE IF dec.ok /\ XmlCheck(dec.str) THEN "xml"
    ELSE IF dec.ok /\ CsvCheck(dec.str) THEN "csv"
    ELSE IF ExcelCheck(content_start) THEN "excel"
    ELSE IF FixedWidthCheck(IF dec.ok THEN dec.str ELSE content_start)
      THEN "fixed-width"
    ELSE "unknown")

\* The six tags detect_format returns.
Tags == {"json", "xml", "csv", "excel", "fixed-width", "unknown"}

\* The tag returned for the bytes read, or "RecursionError" when the call
\* raises it.  When decoding fails content_str is never bound: the text
\* checks are skipped and the fixed-width check raises NameError, which
\* its bare except swallows.
DetectTag(content_start) ==
  With(Utf8Decode(content_start), LAMBDA dec :
    IF dec.ok /\ JsonCheckRaises(dec.str) THEN "RecursionError"
    ELSE IF dec.ok /\ JsonCheck(dec.str) THEN "json"
    ELSE IF dec.ok /\ XmlCheck(dec.str) THEN "xml"
    ELSE IF dec.ok /\ CsvCheck(dec.str) THEN "csv"
    ELSE IF ExcelCheck(content_start) THEN "excel"
    ELSE IF dec.ok /\ FixedWidthCheck(dec.str) THEN "fixed-width"
    ELSE "unknown")

\* ------------------------------------------------------------------------
\* Tables.  A DataFrame is [cols, rows]: the column labels in order and
\* the rows, each a sequence of cells aligned with cols.  A text label is
\* its code points; the integer label k that pandas gives an unnamed column
\* is written <<-(k + 1)>>, which is no text.  A cell is one of
\*   [t |-> "int", v |-> n]        an integral number
\*   [t |-> "float", lex |-> s]    a finite number that is not written as
\*                                 an integer, by its text
\*   [t |-> "inf", neg |-> b]      an infinity
\*   [t |-> "nan"]                 NaN
\*   [t |-> "none"]                None
\*   [t |-> "bool", b |-> b]       True / False
\*   [t |-> "str", s |-> s]        a text
\*   [t |-> "obj"]                 any other object (a list, a dict)
Names ==
  [ Account_code |-> <<65, 99, 99, 111, 117, 110, 116, 95, 99, 111, 100, 101>>,
    Account_name |-> <<65, 99, 99, 111, 117, 110, 116, 95, 110, 97, 109, 101>>,
    opening_balance_debit |->
      <<111, 112, 101, 110, 105, 110, 103, 95, 98, 97, 108, 97, 110, 99, 101,
        95, 100, 101, 98, 105, 116>>,
    opening_balance_credit |->
      <<111, 112, 101, 110, 105, 110, 103, 95, 98, 97, 108, 97, 110, 99, 101,
        95, 99, 114, 101, 100, 105, 116>>,
    current_turnover_debit |->
      <<99, 117, 114, 114, 101, 110, 116, 95, 116, 117, 114, 110, 111, 118,
        101, 114, 95, 100, 101, 98, 105, 116>>,
    current_turnover_credit |->
      <<99, 117, 114, 114, 101, 110, 116, 95, 116, 117, 114, 110, 111, 118,
        101, 114, 95, 99, 114, 101, 100, 105, 116>>,
    end_of_period_debit |->
      <<101, 110, 100, 95, 111, 102, 95, 112, 101, 114, 105, 111, 100, 95,
        100, 101, 98, 105, 116>>,
    end_of_period_credit |->
      <<101, 110, 100, 95, 111, 102, 95, 112, 101, 114, 105, 111, 100, 95,
        99, 114, 101, 100, 105, 116>> ]

\* numeric_columns (lines 74-78 and 184-188), in list order.
numeric_columns ==
  << Names.opening_balance_debit, Names.opening_balance_credit,
     Names.current_turnover_debit, Names.current_turnover_credit,
     Names.end_of_period_debit, Names.end_of_period_credit >>

\* The eight canonical columns in the order of the lists at lines 96-101
\* and 146-151.
canonical_columns ==
  <<Names.Account_code, Names.Account_name>> \o numeric_columns

\* required_columns (lines 61-66), a set.
required_columns == {canonical_columns[i] : i \in 1..Len(canonical_columns)}

Range(f) == {f[i] : i \in DOMAIN f}

NaN == [t |-> "nan"]

None == [t |-> "none"]

IntCell(n) == [t |-> "int", v |-> n]

StrCell(s) == [t |-> "str", s |-> s]

Zero == IntCell(0)

\* ------------------------------------------------------------------------
\* Numbers as text: the syntax shared by float(), pandas.to_numeric and the
\* CSV reader's inference for texts made of sign, digits, '.', exponent and
\* the names inf / infinity / nan (no blanks, no digit separators).
ToLower(c) == IF c >= CH.bigA /\ c <= CH.bigZ THEN c + 32 ELSE c

Lower(s) == [i \in 1..Len(s) |-> ToLower(s[i])]

RECURSIVE DigitsValue(_, _, _)
\* The value of the digits s[i..j-1].
DigitsValue(s, i, j) ==
  IF j <= i THEN 0
  ELSE 10 * DigitsValue(s, i, j - 1) + (s[j - 1] - CH.zero)

NotANumber == [t |-> "notnum"]

NumberOf(s) ==
  With(s # <<>> /\ s[1] = CH.minus, LAMBDA neg :
  With(IF s # <<>> /\ s[1] \in {CH.plus, CH.minus} THEN 2 ELSE 1, LAMBDA i :
  With(DigitsEnd(s, i), LAMBDA d1 :
  With(d1 <= Len(s) /\ s[d1] = CH.dot, LAMBDA hasDot :
  With(IF hasDot THEN DigitsEnd(s, d1 + 1) ELSE d1, LAMBDA d2 :
  With((d1 - i) + (IF hasDot THEN d2 - d1 - 1 ELSE 0), LAMBDA mantissa :
  With(d2 <= Len(s) /\ s[d2] \in {CH.e, CH.bigE}, LAMBDA hasExp :
  With(IF d2 + 1 <= Len(s) /\ s[d2 + 1] \in {CH.plus, CH.minus}
       THEN d2 + 2 ELSE d2 + 1, LAMBDA e1 :
  With(IF hasExp THEN DigitsEnd(s, e1) ELSE d2, LAMBDA d3 :
  With(Lower(Drop(s, i)), LAMBDA word :
    IF d1 > i /\ d1 > Len(s)
    THEN IntCell(IF neg THEN 0 - DigitsValue(s, i, d1)
                 ELSE DigitsValue(s, i, d1))
    ELSE IF word \in {<<105, 110, 102>>,
                      <<105, 110, 102, 105, 110, 105, 116, 121>>}
         THEN [t |-> "inf", neg |-> neg]
    ELSE IF word = <<110, 97, 110>> THEN NaN
    ELSE IF mantissa > 0 /\ (hasExp => d3 > e1) /\ d3 > Len(s)
         THEN [t |-> "float", lex |-> s]
    ELSE NotANumber))))))))))

\* pandas.to_numeric(errors='coerce') on one cell: a number stays, a text
\* that is a number becomes it, NaN, None, the empty text and every other
\* text become NaN.  A cell that is neither number nor text raises
\* TypeError (the result "typeerror").
ToNumericCoerce(cell) ==
  IF cell.t \in {"int", "float", "inf", "bool", "nan"} THEN cell
  ELSE IF cell.t = "none" THEN NaN
  ELSE IF cell.t = "str"
       THEN With(NumberOf(cell.s), LAMBDA n :
              IF n.t = "notnum" THEN NaN ELSE n)
  ELSE [t |-> "typeerror"]

\* Series.isna() on one cell.
IsNa(cell) == cell.t \in {"nan", "none"}

\* df[col]: the cells of the column labelled col, in row order.
ColumnIndex(df, col) == CHOOSE i \in 1..Len(df.cols) : df.cols[i] = col

Column(df, col) ==
  [r \in 1..Len(df.rows) |-> df.rows[r][ColumnIndex(df, col)]]

\* ------------------------------------------------------------------------
\* validate_dataframe (lines 59-90).  The result is [ok |-> TRUE] or the
\* ValueError raised: its kind and the columns its message names.
ColumnNumericOk(df, col) ==
  \A r \in 1..Len(df.rows) :
    ToNumericCoerce(Column(df, col)[r]).t \notin {"nan", "typeerror"}

\* A validate_dataframe whose message names only the first missing column
\* of the list.
validate_dataframe_first_missing(df) ==
  With({i \in 1..Len(canonical_columns) :
          canonical_columns[i] \notin Range(df.cols)}, LAMBDA missing :
    IF missing # {}
    THEN [ok |-> FALSE, kind |-> "missing_columns",
          names |-> {canonical_columns[CHOOSE i \in missing :
                                         \A j \in missing : i <= j]}]
    ELSE
      With({i \in 1..Len(numeric_columns) :
              ~ColumnNumericOk(df, numeric_columns[i])}, LAMBDA bad :
        IF bad # {}
        THEN [ok |-> FALSE, kind |-> "not_numeric",
              names |-> {numeric_columns[CHOOSE i \in bad :
                                           \A j \in bad : i <= j]}]
        ELSE IF \E r \in 1..Len(df.rows) :
                  IsNa(Column(df, Names.Account_code)[r])
             THEN [ok |-> FALSE, kind |-> "empty_value",
                   names |-> {Names.Account_code}]
        ELSE IF \E r \in 1..Len(df.rows) :
                  IsNa(Column(df, Names.Account_name)[r])
             THEN [ok |-> FALSE, kind |-> "empty_value",
                   names |-> {Names.Account_name}]
        ELSE [ok |-> TRUE, kind |-> "none", names |-> {}]))

validate_dataframe(df) ==
  With(required_columns \ Range(df.cols), LAMBDA missing_columns :
    IF missing_columns # {}
    THEN [ok |-> FALSE, kind |-> "missing_columns",
          names |-> missing_columns]
    ELSE
      With({i \in 1..Len(numeric_columns) :
              ~ColumnNumericOk(df, numeric_columns[i])}, LAMBDA bad :
        IF bad # {}
        THEN [ok |-> FALSE, kind |-> "not_numeric",
              names |-> {numeric_columns[CHOOSE i \in bad :
                                           \A j \in bad : i <= j]}]
        ELSE IF \E r \in 1..Len(df.rows) :
                  IsNa(Column(df, Names.Account_code)[r])
             THEN [ok |-> FALSE, kind |-> "empty_value",
                   names |-> {Names.Account_code}]
        ELSE IF \E r \in 1..Len(df.rows) :
                  IsNa(Column(df, Names.Account_name)[r])
             THEN [ok |-> FALSE, kind |-> "empty_value",
                   names |-> {Names.Account_name}]
        ELSE [ok |-> TRUE, kind |-> "none", names |-> {}]))

\* A coercion that leaves zero amounts blank.
CoerceCellZeroBlank(cell) ==
  With(ToNumericCoerce(cell), LAMBDA n : IF n = Zero THEN NaN ELSE n)

\* Lines 190-191: every numeric column is replaced by
\* to_numeric(errors='coerce').fillna(0); the other columns are kept.
CoerceCell(cell) ==
  With(ToNumericCoerce(cell), LAMBDA n : IF n.t = "nan" THEN Zero ELSE n)

CoerceNumericColumns(df) ==
  [cols |-> df.cols,
   rows |-> [r \in 1..Len(df.rows) |->
               [c \in 1..Len(df.cols) |->
                  IF df.cols[c] \in Range(numeric_columns)
                  THEN CoerceCell(df.rows[r][c])
                  ELSE df.rows[r][c]]]]

\* ------------------------------------------------------------------------
\* What the pandas text readers make of the fields of one column.
\* STR_NA_VALUES: the texts read as NaN.
NaTexts ==
  { <<>>, <<35, 78, 47, 65>>, <<35, 78, 47, 65, 32, 78, 47, 65>>,
    <<35, 78, 65>>, <<45, 49, 46, 35, 73, 78, 68>>,
    <<45, 49, 46, 35, 81, 78, 65, 78>>, <<45, 78, 97, 78>>,
    <<45, 110, 97, 110>>, <<49, 46, 35, 73, 78, 68>>,
    <<49, 46, 35, 81, 78, 65, 78>>, <<60, 78, 65, 62>>, <<78, 47, 65>>,
    <<78, 65>>, <<78, 85, 76, 76>>, <<78, 97, 78>>, <<78, 111, 110, 101>>,
    <<110, 47, 97>>, <<110, 97, 110>>, <<110, 117, 108, 108>> }

TrueTexts == {<<84, 114, 117, 101>>, <<84, 82, 85, 69>>, <<116, 114, 117, 101>>}

FalseTexts ==
  {<<70, 97, 108, 115, 101>>, <<70, 65, 76, 83, 69>>, <<102, 97, 108, 115, 101>>}

\* The cells of a column read from the texts of its fields: NA texts are
\* NaN; the column is numeric when every other field is a number, boolean
\* when every field is a boolean word, and holds the texts otherwise.
InferColumn(texts) ==
  With(\A r \in 1..Len(texts) :
         texts[r] \in NaTexts \/ NumberOf(texts[r]).t # "notnum",
       LAMBDA numeric :
  With(/\ texts # <<>>
       /\ \A r \in 1..Len(texts) : texts[r] \in TrueTexts \cup FalseTexts,
       LAMBDA boolean :
    [r \in 1..Len(texts) |->
       IF texts[r] \in NaTexts THEN NaN
       ELSE IF numeric THEN NumberOf(texts[r])
       ELSE IF boolean THEN [t |-> "bool", b |-> texts[r] \in TrueTexts]
       ELSE StrCell(texts[r])]))

\* The table whose column c holds the inferred cells of the c-th field of
\* every record.
TableOfTexts(cols, records) ==
  With([c \in 1..Len(cols) |->
          InferColumn([r \in 1..Len(records) |-> records[r][c]])],
       LAMBDA column :
    [cols |-> cols,
     rows |-> [r \in 1..Len(records) |->
                 [c \in 1..Len(cols) |-> column[c][r]]]])

\* A line without its trailing carriage return.
ChopCr(line) ==
  IF line # <<>> /\ line[Len(line)] = CH.cr
  THEN SubSeq(line, 1, Len(line) - 1) ELSE line

TextLines(text) ==
  LET raw == Split(text, CH.lf)
  IN [i \in 1..Len(raw) |-> ChopCr(raw[i])]

RECURSIVE DigitsOf(_)
\* str(n) for n >= 0.
DigitsOf(n) ==
  IF n < 10 THEN <<CH.zero + n>>
  ELSE DigitsOf(n \div 10) \o <<CH.zero + (n % 10)>>

\* The labels pandas makes of a header row: an empty name becomes
\* "Unnamed: <position>", the k-th repeat of a name gets ".k" appended.
HeaderLabels(header) ==
  LET named == [i \in 1..Len(header) |->
                  IF header[i] = <<>>
                  THEN <<85, 110, 110, 97, 109, 101, 100, 58, 32>>
                       \o DigitsOf(i - 1)
                  ELSE header[i]]
      before(i) == Cardinality({j \in 1..(i - 1) : named[j] = named[i]})
  IN [i \in 1..Len(header) |->
        IF before(i) = 0 THEN named[i]
        ELSE named[i] \o <<CH.dot>> \o DigitsOf(before(i))]

ParseFail(kind) ==
  [ok |-> FALSE, kind |-> kind, df |-> [cols |-> <<>>, rows |-> <<>>]]

ParseOk(df) == [ok |-> TRUE, kind |-> "none", df |-> df]

\* str.strip(' \t') (read_fwf applies it to each slice).
IsBlank(c) == c \in {CH.sp, CH.tab}

StripBlanks(s) ==
  SubSeq(s, RunEnd(s, 1, IsBlank),
         Len(s) + 1 - RunEnd(Reverse(s), 1, IsBlank))

\* The lines that hold something other than spaces and tabs, in order.
RECURSIVE NonBlank(_)
NonBlank(lines) ==
  IF Len(lines) = 0 THEN <<>>
  ELSE (IF StripBlanks(lines[1]) # <<>> THEN <<lines[1]>> ELSE <<>>)
       \o NonBlank(Tail(lines))

\* pd.read_csv(file_obj) with its defaults, for text without quote
\* characters: comma-separated, blank lines skipped, the first line the
\* header.  A first data row with more fields than the header makes the
\* leading fields the index; a later row with more fields than the rows
\* before it is a ParserError; short rows are filled with NaN.
read_csv(bytes) ==
  With(Utf8Decode(bytes), LAMBDA dec :
    IF ~dec.ok THEN ParseFail("UnicodeDecodeError")
    ELSE
      With(NonBlank(TextLines(dec.str)), LAMBDA lines :
        IF lines = <<>> THEN ParseFail("EmptyDataError")
        ELSE
          With(Split(lines[1], CH.comma), LAMBDA header :
          With([i \in 1..(Len(lines) - 1) |-> Split(lines[i + 1], CH.comma)],
               LAMBDA data :
          With(IF Len(data) = 0 THEN Len(header)
               ELSE Max(Len(header), Len(data[1])), LAMBDA width :
          With(width - Len(header), LAMBDA index :
            IF \E r \in 1..Len(data) : Len(data[r]) > width
            THEN ParseFail("ParserError")
            ELSE ParseOk(TableOfTexts(
                   HeaderLabels(header),
                   [r \in 1..Len(data) |->
                      [c \in 1..Len(header) |->
                         IF index + c <= Len(data[r])
                         THEN data[r][index + c] ELSE <<>>]]))))))))

\* ------------------------------------------------------------------------
\* parse_fixed_width (lines 92-108).
widths == <<10, 30, 15, 15, 15, 15, 15, 15>>

RECURSIVE SumTo(_, _)
SumTo(w, k) == IF k = 0 THEN 0 ELSE SumTo(w, k - 1) + w[k]

\* The c-th slice of a line: the characters at the column's positions.
FwfSlice(line, c) ==
  StripBlanks(SubSeq(line, SumTo(widths, c - 1) + 1,
                     Min(SumTo(widths, c), Len(line))))

\* The records that have a non-empty field, in order.
RECURSIVE NonEmptyRecords(_)
NonEmptyRecords(records) ==
  IF Len(records) = 0 THEN <<>>
  ELSE (IF \E c \in 1..Len(records[1]) : records[1][c] # <<>>
        THEN <<records[1]>> ELSE <<>>)
       \o NonEmptyRecords(Tail(records))

\* pd.read_fwf(file_obj, widths=widths, names=names): every line is a data
\* row (names are given, so no header is read), lines whose slices are all
\* empty are dropped, and an input without rows is a table without rows.
read_fwf(bytes) ==
  With(Utf8Decode(bytes), LAMBDA dec :
    IF ~dec.ok THEN ParseFail("UnicodeDecodeError")
    ELSE
      With(TextLines(dec.str), LAMBDA lines :
        ParseOk(TableOfTexts(
          canonical_columns,
          NonEmptyRecords([i \in 1..Len(lines) |->
                             [c \in 1..Len(widths) |->
                                FwfSlice(lines[i], c)]])))))

\* df.fillna(0): every NaN or None cell becomes 0.
FillNa(df) ==
  [cols |-> df.cols,
   rows |-> [r \in 1..Len(df.rows) |->
               [c \in 1..Len(df.cols) |->
                  IF IsNa(df.rows[r][c]) THEN Zero ELSE df.rows[r][c]]]]

\* Any exception of read_fwf or fillna is raised again as ValueError.
parse_fixed_width(bytes) ==
  With(read_fwf(bytes), LAMBDA read :
    IF read.ok THEN ParseOk(FillNa(read.df)) ELSE ParseFail("ValueError"))

\* ------------------------------------------------------------------------
\* parse_json (lines 134-159).

\* The cell pandas holds for a JSON value.
JsonCell(v) ==
  IF v.t = "num" THEN NumberOf(v.lex)
  ELSE IF v.t = "str" THEN StrCell(v.s)
  ELSE IF v.t = "lit"
       THEN IF v.s = "null" THEN None
            ELSE IF v.s = "NaN" THEN NaN
            ELSE IF v.s = "Infinity" THEN [t |-> "inf", neg |-> FALSE]
            ELSE IF v.s = "-Infinity" THEN [t |-> "inf", neg |-> TRUE]
            ELSE [t |-> "bool", b |-> v.s = "true"]
  ELSE [t |-> "obj"]

IsJsonScalar(v) == v.t \in {"num", "str", "lit"}

\* dict[key] for a JSON object: the value of the last item with that key.
JsonGet(obj, key) ==
  With({i \in 1..Len(obj.items) : obj.items[i].k = key}, LAMBDA hits :
    obj.items[CHOOSE i \in hits : \A j \in hits : j <= i].v)

JsonHas(obj, key) == \E i \in 1..Len(obj.items) : obj.items[i].k = key

\* The keys of a sequence of JSON objects in the order of their first
\* appearance.
RECURSIVE KeysInOrder(_, _, _, _)
KeysInOrder(objs, r, i, acc) ==
  IF r > Len(objs) THEN acc
  ELSE IF i > Len(objs[r].items) THEN KeysInOrder(objs, r + 1, 1, acc)
  ELSE KeysInOrder(objs, r, i + 1,
                   IF objs[r].items[i].k \in Range(acc) THEN acc
                   ELSE Append(acc, objs[r].items[i].k))

MaxLength(seqs) ==
  IF Len(seqs) = 0 THEN 0
  ELSE CHOOSE n \in {Len(seqs[i]) : i \in 1..Len(seqs)} :
         \A i \in 1..Len(seqs) : Len(seqs[i]) <= n

\* pd.DataFrame(list): a list of dicts gives a column per key and NaN where
\* a record lacks the key; a list of lists a column per position, labelled
\* 0, 1, ...; a list of scalars the single column 0; a list that mixes
\* these raises.
DataFrameOfList(items) ==
  With(Len(items), LAMBDA n :
    IF n = 0 THEN ParseOk([cols |-> <<>>, rows |-> <<>>])
    ELSE IF \A r \in 1..n : items[r].t = "obj"
         THEN With(KeysInOrder(items, 1, 1, <<>>), LAMBDA keys :
                ParseOk(
                  [cols |-> keys,
                   rows |-> [r \in 1..n |->
                               [c \in 1..Len(keys) |->
                                  IF JsonHas(items[r], keys[c])
                                  THEN JsonCell(JsonGet(items[r], keys[c]))
                                  ELSE NaN]]]))
    ELSE IF \A r \in 1..n : items[r].t = "arr"
         THEN With([r \in 1..n |-> items[r].items], LAMBDA lists :
              With(MaxLength(lists), LAMBDA wide :
                ParseOk(
                  [cols |-> [c \in 1..wide |-> <<0 - c>>],
                   rows |-> [r \in 1..n |->
                               [c \in 1..wide |->
                                  IF c <= Len(lists[r])
                                  THEN JsonCell(lists[r][c]) ELSE None]]])))
    ELSE IF \A r \in 1..n : IsJsonScalar(items[r])
         THEN ParseOk([cols |-> << <<0 - 1>> >>,
                       rows |-> [r \in 1..n |-> <<JsonCell(items[r])>>]])
    ELSE ParseFail("DataFrame"))

\* pd.DataFrame(dict): a column per key.  Every value a list of one length
\* gives that many rows, a scalar value is repeated on every row; no list
\* at all (only scalars) raises, as do lists of different lengths.  An
\* empty dict is the empty table.  (A dict among the values is not
\* modelled and counts as a failure.)
DataFrameOfDict(obj) ==
  With(KeysInOrder(<<obj>>, 1, 1, <<>>), LAMBDA keys :
  With([c \in 1..Len(keys) |-> JsonGet(obj, keys[c])], LAMBDA val :
  With({c \in 1..Len(keys) : val[c].t = "arr"}, LAMBDA arrs :
  With({Len(val[c].items) : c \in arrs}, LAMBDA lens :
    IF Len(keys) = 0 THEN ParseOk([cols |-> <<>>, rows |-> <<>>])
    ELSE IF \/ Cardinality(lens) # 1
            \/ \E c \in 1..Len(keys) : val[c].t = "obj"
         THEN ParseFail("DataFrame")
    ELSE With(CHOOSE k \in lens : TRUE, LAMBDA n :
           ParseOk([cols |-> keys,
                    rows |-> [r \in 1..n |->
                                [c \in 1..Len(keys) |->
                                   IF c \in arrs
                                   THEN JsonCell(val[c].items[r])
                                   ELSE JsonCell(val[c])]]]))))))

\* pd.DataFrame(data) for any JSON value: None is the empty table, a
\* scalar raises.
DataFrameOf(v) ==
  IF v.t = "arr" THEN DataFrameOfList(v.items)
  ELSE IF v.t = "obj" THEN DataFrameOfDict(v)
  ELSE IF v.t = "lit" /\ v.s = "null"
       THEN ParseOk([cols |-> <<>>, rows |-> <<>>])
  ELSE ParseFail("DataFrame")

\* A parse_json step that adds no column.
AddNoColumns(df, k) == df

\* A parse_json step that adds the missing columns without a value.
RECURSIVE AddEmptyColumns(_, _)
AddEmptyColumns(df, k) ==
  IF k > Len(canonical_columns) THEN df
  ELSE IF canonical_columns[k] \in Range(df.cols)
       THEN AddEmptyColumns(df, k + 1)
  ELSE AddEmptyColumns(
         [cols |-> Append(df.cols, canonical_columns[k]),
          rows |-> [r \in 1..Len(df.rows) |-> Append(df.rows[r], NaN)]],
         k + 1)

\* Lines 153-155: df[col] = 0 for every canonical column the table lacks,
\* appended in list order.
RECURSIVE AddMissingColumns(_, _)
AddMissingColumns(df, k) ==
  IF k > Len(canonical_columns) THEN df
  ELSE IF canonical_columns[k] \in Range(df.cols)
       THEN AddMissingColumns(df, k + 1)
  ELSE AddMissingColumns(
         [cols |-> Append(df.cols, canonical_columns[k]),
          rows |-> [r \in 1..Len(df.rows) |-> Append(df.rows[r], Zero)]],
         k + 1)

EntriesKey == <<101, 110, 116, 114, 105, 101, 115>>

\* Lines 138-143: the table made of a list, or of the entries of a dict;
\* any other value raises "Invalid JSON structure".
JsonDataFrame(data) ==
  IF data.t = "arr" THEN DataFrameOfList(data.items)
  ELSE IF data.t = "obj" /\ JsonHas(data, EntriesKey)
       THEN DataFrameOf(JsonGet(data, EntriesKey))
  ELSE ParseFail("Invalid JSON structure")

\* json.load, the two accepted shapes, the added columns; every exception
\* is raised again as ValueError.
parse_json(bytes) ==
  With(Utf8Decode(bytes), LAMBDA dec :
    IF ~dec.ok THEN ParseFail("ValueError")
    ELSE
      With(JsonLoads(dec.str), LAMBDA data :
        IF ~data.ok THEN ParseFail("ValueError")
        ELSE
          With(JsonDataFrame(data.val), LAMBDA built :
            IF ~built.ok THEN ParseFail("ValueError")
            ELSE ParseOk(AddMissingColumns(built.df, 1)))))

\* ------------------------------------------------------------------------
\* parse_xml (lines 110-132).
XmlTags ==
  [ entry |-> <<101, 110, 116, 114, 121>>,
    account_code |-> <<97, 99, 99, 111, 117, 110, 116, 95, 99, 111, 100, 101>>,
    account_name |-> <<97, 99, 99, 111, 117, 110, 116, 95, 110, 97, 109, 101>>,
    opening_debit |->
      <<111, 112, 101, 110, 105, 110, 103, 95, 100, 101, 98, 105, 116>>,
    opening_credit |->
      <<111, 112, 101, 110, 105, 110, 103, 95, 99, 114, 101, 100, 105, 116>>,
    turnover_debit |->
      <<116, 117, 114, 110, 111, 118, 101, 114, 95, 100, 101, 98, 105, 116>>,
    turnover_credit |->
      <<116, 117, 114, 110, 111, 118, 101, 114, 95, 99, 114, 101, 100, 105,
        116>>,
    ending_debit |->
      <<101, 110, 100, 105, 110, 103, 95, 100, 101, 98, 105, 116>>,
    ending_credit |->
      <<101, 110, 100, 105, 110, 103, 95, 99, 114, 101, 100, 105, 116>> ]

\* The child tag read for each canonical column, in column order.
child_tags ==
  << XmlTags.account_code, XmlTags.account_name, XmlTags.opening_debit,
     XmlTags.opening_credit, XmlTags.turnover_debit, XmlTags.turnover_credit,
     XmlTags.ending_debit, XmlTags.ending_credit >>

\* Every element below el, in document order.
RECURSIVE Descendants(_)
RECURSIVE DescendantsOfAll(_)
Descendants(el) == DescendantsOfAll(el.children)

DescendantsOfAll(els) ==
  IF Len(els) = 0 THEN <<>>
  ELSE <<els[1]>> \o Descendants(els[1]) \o DescendantsOfAll(Tail(els))

\* The elements of els with the given tag, in order.
RECURSIVE WithTag(_, _)
WithTag(els, tag) ==
  IF Len(els) = 0 THEN <<>>
  ELSE (IF els[1].tag = tag THEN <<els[1]>> ELSE <<>>)
       \o WithTag(Tail(els), tag)

\* A search that stops at the first entry.
FindFirstEntry(root) ==
  With(WithTag(Descendants(root), XmlTags.entry), LAMBDA found :
    IF found = <<>> THEN <<>> ELSE <<found[1]>>)

\* root.findall('.//entry')
FindAllEntries(root) == WithTag(Descendants(root), XmlTags.entry)

\* entry.find(tag) is not None
HasChild(entry, tag) == WithTag(entry.children, tag) # <<>>

\* entry.find(tag).text: the first such child's text, None when it has none.
ChildText(entry, tag) == WithTag(entry.children, tag)[1].text

\* Lines 119-120: the text of the child ('' without the child, None for a
\* child without text).
TextField(entry, tag) ==
  IF ~HasChild(entry, tag) THEN StrCell(<<>>)
  ELSE With(ChildText(entry, tag), LAMBDA text :
         IF text = <<>> THEN None ELSE StrCell(text))

\* Lines 121-126: float(text) of the child, 0 without the child.  float
\* ignores surrounding whitespace; float(None) raises TypeError and a text
\* that is no number ValueError (the result "notnum").
FloatField(entry, tag) ==
  IF ~HasChild(entry, tag) THEN Zero
  ELSE With(ChildText(entry, tag), LAMBDA text :
         IF text = <<>> THEN NotANumber ELSE NumberOf(Strip(text)))

EntryRow(entry) ==
  [c \in 1..Len(child_tags) |->
     IF c <= 2 THEN TextField(entry, child_tags[c])
     ELSE FloatField(entry, child_tags[c])]

\* ET.parse, a row per entry, pd.DataFrame(data): a table without columns
\* when there is no entry.  Every exception is raised again as ValueError.
parse_xml(bytes) ==
  With(Utf8Decode(bytes), LAMBDA dec :
    IF ~dec.ok THEN ParseFail("ValueError")
    ELSE
      With(XmlParse(dec.str), LAMBDA tree :
        IF ~tree.ok THEN ParseFail("ValueError")
        ELSE
          With(FindAllEntries(tree.el), LAMBDA entries :
          With([r \in 1..Len(entries) |-> EntryRow(entries[r])], LAMBDA data :
            IF \E r \in 1..Len(data) : \E c \in 1..Len(child_tags) :
                 data[r][c].t = "notnum"
            THEN ParseFail("ValueError")
            ELSE IF Len(data) = 0
                 THEN ParseOk([cols |-> <<>>, rows |-> <<>>])
            ELSE ParseOk([cols |-> canonical_columns, rows |-> data])))))

\* ------------------------------------------------------------------------
\* pd.read_excel(file_obj).  A workbook is a ZIP archive or an OLE2 file
\* of several hundred bytes at least; every input of this model is shorter
\* and makes read_excel raise.
read_excel(bytes) == ParseFail("read_excel")

\* ------------------------------------------------------------------------
\* read_financial_file (lines 161-196) on a stream [bytes, pos].
ReadSize == 4096

\* A stream that has just been opened on the bytes.
Fresh(bytes) == [bytes |-> bytes, pos |-> 0]

\* A read() without a size: all the bytes from the stream's position on.
ReadToEnd(stream) ==
  SubSeq(stream.bytes, stream.pos + 1, Len(stream.bytes))

\* file_obj.read(4096) at the stream's position.
ReadPrefix(stream) ==
  SubSeq(stream.bytes, stream.pos + 1,
         Min(stream.pos + ReadSize, Len(stream.bytes)))

\* detect_format(file_obj): the tag for the bytes read.
detect_format(stream) == DetectTag(ReadPrefix(stream))

\* A dispatch that hands a tag without parser to read_csv.
ParserForWithFallback(format_type) ==
  IF format_type = "excel" THEN "read_excel"
  ELSE IF format_type = "json" THEN "parse_json"
  ELSE IF format_type = "xml" THEN "parse_xml"
  ELSE IF format_type = "fixed-width" THEN "parse_fixed_width"
  ELSE "read_csv"

\* Lines 167-178: the parser chosen by the tag ("none" for a tag without
\* parser).  detect_format has put the position back to 0, so the parser
\* reads all the bytes.
ParserFor(format_type) ==
  IF format_type = "csv" THEN "read_csv"
  ELSE IF format_type = "excel" THEN "read_excel"
  ELSE IF format_type = "json" THEN "parse_json"
  ELSE IF format_type = "xml" THEN "parse_xml"
  ELSE IF format_type = "fixed-width" THEN "parse_fixed_width"
  ELSE "none"

RunParser(parser, bytes) ==
  IF parser = "read_csv" THEN read_csv(bytes)
  ELSE IF parser = "read_excel" THEN read_excel(bytes)
  ELSE IF parser = "parse_json" THEN parse_json(bytes)
  ELSE IF parser = "parse_xml" THEN parse_xml(bytes)
  ELSE IF parser = "parse_fixed_width" THEN parse_fixed_width(bytes)
  ELSE ParseFail("Unsupported file format")

\* Lines 180-191: validate_dataframe(df), then the numeric clean-up; the
\* table, or the failure validate_dataframe raised.
ValidateAndCoerce(df) ==
  With(validate_dataframe(df), LAMBDA valid :
    IF valid.ok THEN ParseOk(CoerceNumericColumns(df))
    ELSE ParseFail(valid.kind))

NoTable == [cols |-> <<>>, rows |-> <<>>]

\* A read_financial_file that, when the parser chosen by the tag or the
\* validation of its table fails, reads the bytes again as delimited text.
read_financial_file_retrying(stream) ==
  With(detect_format(stream), LAMBDA format_type :
  With(ParserFor(format_type), LAMBDA parser :
  With(RunParser(parser, stream.bytes), LAMBDA parsed :
  With(read_csv(stream.bytes), LAMBDA again :
    IF format_type \notin Tags
    THEN [status |-> "raised", format |-> format_type, parser |-> "none",
          kind |-> format_type, names |-> {}, df |-> NoTable,
          calls |-> <<"detect_format">>]
    ELSE IF parsed.ok /\ validate_dataframe(parsed.df).ok
    THEN [status |-> "ok", format |-> format_type, parser |-> parser,
          kind |-> "none", names |-> {},
          df |-> CoerceNumericColumns(parsed.df),
          calls |-> <<"detect_format", parser, "validate_dataframe">>]
    ELSE IF again.ok /\ validate_dataframe(again.df).ok
    THEN [status |-> "ok", format |-> format_type, parser |-> parser,
          kind |-> "none", names |-> {},
          df |-> CoerceNumericColumns(again.df),
          calls |-> <<"detect_format", parser, "read_csv",
                      "validate_dataframe">>]
    ELSE [status |-> "error", format |-> format_type, parser |-> parser,
          kind |-> "ValueError", names |-> {}, df |-> NoTable,
          calls |-> <<"detect_format", parser, "read_csv">>]))))

\* The outcome of the call: the table returned (status "ok"), the
\* ValueError raised at line 196 ("Error processing file: ...", status
\* "error") with the kind of its cause and the columns the cause names, or
\* the exception of detect_format, which is called outside the try block
\* (line 164) and leaves the call as it is (status "raised"); parser is
\* the parser that was invoked, calls the functions called, in order.
read_financial_file(stream) ==
  With(detect_format(stream), LAMBDA format_type :
  With(ParserFor(format_type), LAMBDA parser :
  With(RunParser(parser, stream.bytes), LAMBDA parsed :
    IF format_type \notin Tags
    THEN [status |-> "raised", format |-> format_type, parser |-> "none",
          kind |-> format_type, names |-> {}, df |-> NoTable,
          calls |-> <<"detect_format">>]
    ELSE IF parser = "none"
    THEN [status |-> "error", format |-> format_type, parser |-> parser,
          kind |-> parsed.kind, names |-> {}, df |-> NoTable,
          calls |-> <<"detect_format">>]
    ELSE IF ~parsed.ok
    THEN [status |-> "error", format |-> format_type, parser |-> parser,
          kind |-> parsed.kind, names |-> {}, df |-> NoTable,
          calls |-> <<"detect_format", parser>>]
    ELSE
      With(validate_dataframe(parsed.df), LAMBDA valid :
        IF ~valid.ok
        THEN [status |-> "error", format |-> format_type,
              parser |-> parser, kind |-> valid.kind,
              names |-> valid.names, df |-> NoTable,
              calls |-> <<"detect_format", parser, "validate_dataframe">>]
        ELSE [status |-> "ok", format |-> format_type, parser |-> parser,
              kind |-> "none", names |-> {},
              df |-> CoerceNumericColumns(parsed.df),
              calls |-> <<"detect_format", parser,
                          "validate_dataframe">>]))))

\* ------------------------------------------------------------------------
\* process_trial_balance (src/processor.py, lines 14-97) and the upload
\* handler of main (src/main.py, lines 214-294).
NetBalance == <<110, 101, 116, 95, 98, 97, 108, 97, 110, 99, 101>>

\* a - b on two cells of numeric columns: integers are subtracted, two
\* booleans raise TypeError, any other difference (of floats, infinities)
\* is kept as the pair of its operands.
Subtract(a, b) ==
  IF a.t = "int" /\ b.t = "int" THEN IntCell(a.v - b.v)
  ELSE IF a.t = "bool" /\ b.t = "bool" THEN [t |-> "typeerror"]
  ELSE [t |-> "diff", l |-> a, r |-> b]

\* df[col] = cells: the column is replaced, or appended when it is new.
SetColumn(df, col, cells) ==
  IF col \in Range(df.cols)
  THEN [cols |-> df.cols,
        rows |-> [r \in 1..Len(df.rows) |->
                    [c \in 1..Len(df.cols) |->
                       IF df.cols[c] = col THEN cells[r]
                       ELSE df.rows[r][c]]]]
  ELSE [cols |-> Append(df.cols, col),
        rows |-> [r \in 1..Len(df.rows) |-> Append(df.rows[r], cells[r])]]

\* A net balance of credit minus debit.
NetBalancesReversed(df) ==
  [r \in 1..Len(df.rows) |->
     Subtract(Column(df, Names.end_of_period_credit)[r],
              Column(df, Names.end_of_period_debit)[r])]

\* Line 37: df['end_of_period_debit'] - df['end_of_period_credit'].
NetBalances(df) ==
  [r \in 1..Len(df.rows) |->
     Subtract(Column(df, Names.end_of_period_debit)[r],
              Column(df, Names.end_of_period_credit)[r])]

\* Line 84.
required_keys == {"balance_sheet", "income_statement", "cash_flow"}

\* Lines 93-97: the three statements, each empty.
EmptyStatements == [k \in required_keys |-> "empty"]

\* The knowledge base handed to process_trial_balance: None, an index
\* whose query raises, one whose query finds nothing, one whose query
\* returns passages.
KnowledgeBases == {"None", "failing", "empty", "answering"}

\* query_knowledge_base(knowledge_base, ...), line 22: the passages found.
Passages(knowledge_base) ==
  IF knowledge_base = "answering" THEN <<"passage 1", "passage 2">> ELSE <<>>

\* Lines 27-31: one citation for every passage.
CitationsOf(relevant_standards) ==
  [i \in 1..Len(relevant_standards) |->
     [text |-> relevant_standards[i], source |-> "NAS Uzbekistan Standards"]]

\* What the chat completion does (lines 75-81): the call raises, the
\* content is no JSON, it is a JSON array, or it is a JSON object with the
\* keys given.
ReplyKeys ==
  {{}, {"balance_sheet"}, required_keys, required_keys \cup {"notes"}}

Replies ==
  {[kind |-> k, keys |-> {}] : k \in {"raises", "not json", "array"}}
  \cup {[kind |-> "object", keys |-> ks] : ks \in ReplyKeys}

\* The columns lines 37 and 43 read.
prompt_columns ==
  {Names.end_of_period_debit, Names.end_of_period_credit,
   Names.Account_code, Names.Account_name}

\* The outcome of lines 90-97: the empty statements, no citations.
Failed(prompted, df) ==
  [raised |-> FALSE, statements |-> EmptyStatements, citations |-> <<>>,
   prompted |-> prompted, df |-> df]

\* Lines 81-89: the reply parsed, the missing keys added, empty.
StatementsOf(reply) ==
  [k \in reply.keys \cup required_keys |->
     IF k \in reply.keys THEN "reply" ELSE "empty"]

\* A process_trial_balance whose knowledge-base query is not guarded: its
\* failure ends in the empty statements like any other.
process_trial_balance_one_try(df, knowledge_base, reply) ==
  IF knowledge_base = "failing" THEN Failed(FALSE, df)
  ELSE IF ~({Names.end_of_period_debit, Names.end_of_period_credit}
              \subseteq Range(df.cols))
  THEN Failed(FALSE, df)
  ELSE IF \E r \in 1..Len(df.rows) : NetBalances(df)[r].t = "typeerror"
  THEN Failed(FALSE, df)
  ELSE
    With(SetColumn(df, NetBalance, NetBalances(df)), LAMBDA with_net :
      IF ~(prompt_columns \subseteq Range(df.cols))
      THEN Failed(FALSE, with_net)
      ELSE IF reply.kind # "object" THEN Failed(TRUE, with_net)
      ELSE [raised |-> FALSE, statements |-> StatementsOf(reply),
            citations |-> CitationsOf(Passages(knowledge_base)),
            prompted |-> TRUE, df |-> with_net])

\* process_trial_balance(df, knowledge_base), lines 14-97, with the reply
\* of the chat completion.  The passages are asked for when a knowledge
\* base is given, and a failure of that query is swallowed (lines 32-34);
\* the net balances are put in df (line 37: KeyError for a missing column,
\* TypeError for two booleans), the prompt is built from df (line 43:
\* KeyError for a missing column) and sent, the reply is parsed and the
\* missing keys are added, empty (lines 84-87; a reply that is an array
\* raises TypeError at line 87).  Every exception ends in the empty
\* statements and no citations (lines 90-97).  raised tells whether an
\* exception left the call, prompted whether the prompt was built, df is
\* the table as the call leaves it.
process_trial_balance(df, knowledge_base, reply) ==
  IF ~({Names.end_of_period_debit, Names.end_of_period_credit}
         \subseteq Range(df.cols))
  THEN Failed(FALSE, df)
  ELSE IF \E r \in 1..Len(df.rows) : NetBalances(df)[r].t = "typeerror"
  THEN Failed(FALSE, df)
  ELSE
    With(SetColumn(df, NetBalance, NetBalances(df)), LAMBDA with_net :
      IF ~(prompt_columns \subseteq Range(df.cols))
      THEN Failed(FALSE, with_net)
      ELSE IF reply.kind # "object" THEN Failed(TRUE, with_net)
      ELSE [raised |-> FALSE, statements |-> StatementsOf(reply),
            citations |-> CitationsOf(Passages(knowledge_base)),
            prompted |-> TRUE, df |-> with_net])

\* What is kept of a call of process_trial_balance: the columns of the
\* table it was given, the knowledge base, the reply, and what it returned.
NoGeneration ==
  [called |-> FALSE, columns |-> <<>>, knowledge_base |-> "None",
   reply |-> [kind |-> "raises", keys |-> {}], raised |-> FALSE,
   statements |-> EmptyStatements, citations |-> <<>>]

GenerationOf(df, knowledge_base, reply, processed) ==
  [called |-> TRUE, columns |-> df.cols, knowledge_base |-> knowledge_base,
   reply |-> reply, raised |-> processed.raised,
   statements |-> processed.statements, citations |-> processed.citations]

\* A handler that saves the trial balance before it looks at the outcome
\* of the read.
main_saving_first(read, balances, statements, last_df, knowledge_base, reply) ==
  IF read.status # "ok"
  THEN [message |-> "error", trial_balances |-> Append(balances, read.df),
        financial_statements |-> statements, prompt_df |-> last_df,
        generation |-> NoGeneration,
        calls |-> <<"read_financial_file">>]
  ELSE IF knowledge_base = "raises"
  THEN [message |-> "error", trial_balances |-> Append(balances, read.df),
        financial_statements |-> statements, prompt_df |-> last_df,
        generation |-> NoGeneration,
        calls |-> <<"read_financial_file", "setup_knowledge_base">>]
  ELSE
    With(process_trial_balance(read.df, knowledge_base, reply),
         LAMBDA processed :
      [message |-> "success",
       trial_balances |-> Append(balances, read.df),
       financial_statements |->
         Append(statements,
                [trial_balance_id |-> Len(balances) + 1,
                 balance_sheet |-> processed.statements["balance_sheet"],
                 income_statement |->
                   processed.statements["income_statement"],
                 cash_flow |-> processed.statements["cash_flow"]]),
       prompt_df |-> IF processed.prompted THEN processed.df ELSE last_df,
       generation |-> GenerationOf(read.df, knowledge_base, reply, processed),
       calls |-> <<"read_financial_file", "setup_knowledge_base",
                   "save_trial_balance", "process_trial_balance",
                   "save_statements">>])

\* A handler that does not save statements that are all empty.
main_skipping_empty(read, balances, statements, last_df, knowledge_base, reply) ==
  IF read.status # "ok"
  THEN [message |-> "error", trial_balances |-> balances,
        financial_statements |-> statements, prompt_df |-> last_df,
        generation |-> NoGeneration,
        calls |-> <<"read_financial_file">>]
  ELSE IF knowledge_base = "raises"
  THEN [message |-> "error", trial_balances |-> balances,
        financial_statements |-> statements, prompt_df |-> last_df,
        generation |-> NoGeneration,
        calls |-> <<"read_financial_file", "setup_knowledge_base">>]
  ELSE
    With(process_trial_balance(read.df, knowledge_base, reply),
         LAMBDA processed :
      [message |-> "success",
       trial_balances |-> Append(balances, read.df),
       financial_statements |->
         IF processed.statements = EmptyStatements THEN statements
         ELSE Append(statements,
                  [trial_balance_id |-> Len(balances) + 1,
                   balance_sheet |-> processed.statements["balance_sheet"],
                   income_statement |->
                     processed.statements["income_statement"],
                   cash_flow |-> processed.statements["cash_flow"]]),
       prompt_df |-> IF processed.prompted THEN processed.df ELSE last_df,
       generation |-> GenerationOf(read.df, knowledge_base, reply, processed),
       calls |-> <<"read_financial_file", "setup_knowledge_base",
                   "save_trial_balance", "process_trial_balance">>
                 \o (IF processed.statements = EmptyStatements THEN <<>>
                     ELSE <<"save_statements">>)])

\* Lines 214-294 of main for one upload, on the outcome read of
\* read_financial_file: a failure of the read or of setup_knowledge_base
\* (knowledge_base is "raises") leaves the try block at once; otherwise the
\* trial balance is saved (its id is its row number), the statements are
\* generated and their three parts are saved with that id.  The result is
\* the message shown, the two database tables, the table the prompt was
\* built from, the call of process_trial_balance and the calls made, in
\* order.
main(read, balances, statements, last_df, knowledge_base, reply) ==
  IF read.status # "ok"
  THEN [message |-> "error", trial_balances |-> balances,
        financial_statements |-> statements, prompt_df |-> last_df,
        generation |-> NoGeneration,
        calls |-> <<"read_financial_file">>]
  ELSE IF knowledge_base = "raises"
  THEN [message |-> "error", trial_balances |-> balances,
        financial_statements |-> statements, prompt_df |-> last_df,
        generation |-> NoGeneration,
        calls |-> <<"read_financial_file", "setup_knowledge_base">>]
  ELSE
    With(process_trial_balance(read.df, knowledge_base, reply),
         LAMBDA processed :
      [message |-> "success",
       trial_balances |-> Append(balances, read.df),
       financial_statements |->
         Append(statements,
                [trial_balance_id |-> Len(balances) + 1,
                 balance_sheet |-> processed.statements["balance_sheet"],
                 income_statement |->
                   processed.statements["income_statement"],
                 cash_flow |-> processed.statements["cash_flow"]]),
       prompt_df |-> IF processed.prompted THEN processed.df ELSE last_df,
       generation |-> GenerationOf(read.df, knowledge_base, reply, processed),
       calls |-> <<"read_financial_file", "setup_knowledge_base",
                   "save_trial_balance", "process_trial_balance",
                   "save_statements">>])

\* ------------------------------------------------------------------------
\* The uploads the model reads.  Every byte sequence is a possible upload;
\* the model takes the short texts over a small alphabet, the two
\* spreadsheet magics followed by such texts, texts of short lines, and
\* documents in the formats the reader knows.
MaxRawLen == 2

MaxTailLen == 3

MaxRows == 2

\* The uploads main may save before the model stops it.
MaxSaves == 1

\* 'a' ',' LF '[' ']' '<'
RawAlphabet == {97, 44, 10, 91, 93, 60}

TextsUpTo(n, alphabet) == UNION {[1..k -> alphabet] : k \in 0..n}

RawInputs == TextsUpTo(MaxRawLen, RawAlphabet)

\* A magic, then commas and line ends or bytes that are not UTF-8.
MagicInputs ==
  {m \o tail : m \in {ZipMagic, OleMagic},
               tail \in TextsUpTo(MaxTailLen, {44, 10, 255})}

RECURSIVE Join(_, _)
\* sep.join(parts)
Join(parts, sep) ==
  IF Len(parts) = 0 THEN <<>>
  ELSE IF Len(parts) = 1 THEN parts[1]
  ELSE parts[1] \o sep \o Join(Tail(parts), sep)

\* Up to three lines, each empty, "a" or "bb"; three lines, each empty,
\* "a" or "c", the first empty; and up to SampledLines + 1 lines, each "a"
\* or "bb".
LineInputs ==
  {Join(lines, <<CH.lf>>) :
     lines \in UNION {[1..k -> {<<>>, <<97>>, <<98, 98>>}] : k \in 1..3}
              \cup {l \in [1..3 -> {<<>>, <<97>>, <<99>>}] : l[1] = <<>>}
              \cup UNION {[1..k -> {<<97>>, <<98, 98>>}] :
                            k \in 4..(SampledLines + 1)}}

\* Delimited text: a header line and rows, every line ended by LF.
CsvText(header, rows) ==
  Join(header, <<CH.comma>>) \o <<CH.lf>>
  \o Join([r \in 1..Len(rows) |-> Join(rows[r], <<CH.comma>>) \o <<CH.lf>>],
          <<>>)

\* The i-th row of a well-formed extended-schema table: code 100 + i, a
\* one-letter name, amounts that differ from row to row.
BaseRow(i) ==
  << DigitsOf(100 + i), <<65 + i>>, DigitsOf(i), <<CH.zero>>, DigitsOf(2 * i),
     <<CH.zero>>, DigitsOf(3 * i), <<CH.zero>> >>

BaseRows(n) == [i \in 1..n |-> BaseRow(i)]

\* Texts put in place of one cell: N/A, a word, the empty text.
OddTexts == {<<78, 47, 65>>, <<97, 98, 99>>, <<>>}

\* Extended-schema CSV files of up to MaxRows rows: well formed, or with
\* one cell replaced by an odd text.
ExtendedCsvInputs ==
  {CsvText(canonical_columns, BaseRows(n)) : n \in 0..MaxRows}
  \cup UNION {{CsvText(canonical_columns,
                       [BaseRows(n) EXCEPT ![r][c] = v]) :
                 r \in 1..n, c \in 1..8, v \in OddTexts} : n \in 1..MaxRows}

\* CSV files whose header lacks some of the canonical columns (any proper
\* subset is kept), with one row.
RECURSIVE Keep(_, _)
Keep(seq, kept) ==
  IF Len(seq) = 0 THEN <<>>
  ELSE (IF Len(seq) \in kept THEN <<seq[Len(seq)]>> ELSE <<>>)
       \o Keep(SubSeq(seq, 1, Len(seq) - 1), kept)

PartialCsvInputs ==
  {CsvText(Keep(canonical_columns, kept), <<Keep(BaseRow(1), kept)>>) :
     kept \in (SUBSET (1..8)) \ {{}, 1..8}}

\* Simple-schema CSV files: Account,Debit,Credit and up to MaxRows rows.
SimpleHeader == <<<<65, 99, 99, 111, 117, 110, 116>>, <<68, 101, 98, 105, 116>>, <<67, 114, 101, 100, 105, 116>>>>

SimpleRows ==
  { <<<<67, 97, 115, 104>>, <<49, 48, 48>>, <<CH.zero>>>>,
    <<<<82, 101, 118, 101, 110, 117, 101>>, <<CH.zero>>, <<49, 48, 48>>>> }

SimpleCsvInputs ==
  {CsvText(SimpleHeader, rows) :
     rows \in UNION {[1..n -> SimpleRows] : n \in 0..MaxRows}}

\* JSON documents: an object whose entries field is an empty array, alone
\* or beside another field, with or without blanks; and arrays of up to
\* MaxRows empty records.
Blanks == {<<>>, <<CH.sp>>, <<CH.lf>>}

EntriesField(ws) ==
  <<CH.quote>> \o EntriesKey \o <<CH.quote, CH.colon>> \o ws
  \o <<CH.lbrack>> \o ws \o <<CH.rbrack>>

OtherField == <<CH.quote, 97, CH.quote, CH.colon, 49>>

JsonInputs ==
  {<<CH.lbrace>> \o ws \o EntriesField(ws) \o <<CH.rbrace>> \o ws :
     ws \in Blanks}
  \cup {<<CH.lbrace>> \o OtherField \o <<CH.comma>> \o EntriesField(ws)
        \o <<CH.rbrace>> : ws \in Blanks}
  \cup {<<CH.lbrace>> \o EntriesField(ws) \o <<CH.comma>> \o OtherField
        \o <<CH.rbrace>> : ws \in Blanks}
  \cup {<<CH.lbrace>> \o OtherField \o <<CH.rbrace>>}
  \cup {<<CH.lbrack>> \o Join([i \in 1..n |-> <<CH.lbrace, CH.rbrace>>],
                              <<CH.comma>>) \o <<CH.rbrack>> :
          n \in 1..MaxRows}

\* XML documents without any entry element: a root that is empty, holds
\* text, or holds up to MaxRows other elements.
Element(tag, content) ==
  <<CH.lt>> \o tag \o <<CH.gt>> \o content \o <<CH.lt, CH.slash>> \o tag
  \o <<CH.gt>>

RootTag == <<114, 111, 111, 116>>

NoEntryXmlInputs ==
  {Element(RootTag, ws) : ws \in Blanks}
  \cup {<<CH.lt>> \o RootTag \o <<CH.slash, CH.gt>> \o ws : ws \in Blanks}
  \cup {Element(RootTag,
                Join([i \in 1..n |-> Element(XmlTags.account_code, <<49>>)],
                     ws)) : n \in 1..MaxRows, ws \in Blanks}

\* XML documents with up to MaxRows entries, each with all its children.
EntryElement(row) ==
  Element(XmlTags.entry,
          Join([c \in 1..8 |-> Element(child_tags[c], row[c])], <<>>))

EntryXmlInputs ==
  {Element(RootTag, Join([i \in 1..n |-> EntryElement(BaseRow(i))], <<>>)) :
     n \in 1..MaxRows}

\* Texts in which no two lines have the same length or share a character
\* ("a", "bb", "ccc", ...), of two to SampledLines lines.
Staircase(n) ==
  Join([i \in 1..n |-> [j \in 1..i |-> 96 + i]], <<CH.lf>>)

StaircaseInputs == {Staircase(n) : n \in 2..SampledLines}

\* Documents of two lines with one comma in each line that are also a JSON
\* array ("[[],[" LF "],[]]") or an XML element ("<a>," LF ",</a>").
TwoLineDocuments ==
  { <<91, 91, 93, 44, 91, 10, 93, 44, 91, 93, 93>>,
    <<60, 97, 62, 44, 10, 44, 60, 47, 97, 62>> }

\* XML documents with one entry in which one child (the code, the name,
\* the first or the last amount) is left out, is empty, or holds a text
\* that is no plain amount (inf, a word, an amount between blanks).
ChildTexts == {<<105, 110, 102>>, <<97, 98, 99>>, <<CH.sp, 55, CH.sp>>}

EntryElementWithout(row, c) ==
  Element(XmlTags.entry,
          Join([k \in 1..8 |-> IF k = c THEN <<>>
                               ELSE Element(child_tags[k], row[k])], <<>>))

OddChildren == {1, 2, 3, 8}

OddEntryXmlInputs ==
  {Element(RootTag, EntryElementWithout(BaseRow(1), c)) : c \in OddChildren}
  \cup {Element(RootTag, EntryElement([BaseRow(1) EXCEPT ![c] = v])) :
          c \in OddChildren, v \in ChildTexts \cup {<<>>}}

\* Fixed-width texts of up to MaxRows lines: an account code (or none) in
\* the first ten positions, then an account name, every line
\* filled with spaces to twelve characters.
PadTo(s, n) == s \o [i \in 1..(n - Len(s)) |-> CH.sp]

FwfLines ==
  {PadTo(PadTo(code, 10) \o name, 12) :
     code \in {<<>>, <<49>>}, name \in {<<65>>, <<66, 66>>}}

FixedWidthInputs ==
  {Join(lines, <<CH.lf>>) :
     lines \in UNION {[1..n -> FwfLines] : n \in 1..MaxRows}}

\* Fixed-width texts of up to MaxRows lines that reach the first amount:
\* a code in the first ten positions, a name in the next thirty, then the
\* opening debit written as nothing, "7" or "abc", every line filled with
\* spaces to the end of that slice.
AmountSlices == {<<>>, <<55>>, <<97, 98, 99>>}

WideFwfLine(i, amount) ==
  PadTo(PadTo(DigitsOf(i), widths[1]) \o PadTo(<<65 + i>>, widths[2])
        \o amount, SumTo(widths, 3))

WideFwfInputs ==
  {Join([i \in 1..Len(amounts) |-> WideFwfLine(i, amounts[i])], <<CH.lf>>) :
     amounts \in UNION {[1..n -> AmountSlices] : n \in 1..MaxRows}}

\* JSON exports of up to MaxRows records: every record holds some of the
\* canonical fields (all, the identifiers, none, or a few),
\* the identifiers as strings and the amounts as numbers; the array stands
\* alone or, with one record, under the entries field of an object.
KeptFields == {1..8, {1, 2}, {}, {2, 7, 8}}

JsonItem(name, value, quoted) ==
  <<CH.quote>> \o name \o <<CH.quote, CH.colon>>
  \o (IF quoted THEN <<CH.quote>> \o value \o <<CH.quote>> ELSE value)

JsonRecord(row, kept) ==
  With(SelectSeq([c \in 1..8 |-> [c |-> c]], LAMBDA it : it.c \in kept),
       LAMBDA fields :
    <<CH.lbrace>>
    \o Join([k \in 1..Len(fields) |->
               JsonItem(canonical_columns[fields[k].c], row[fields[k].c],
                        fields[k].c <= 2)], <<CH.comma>>)
    \o <<CH.rbrace>>)

JsonArray(kepts) ==
  <<CH.lbrack>>
  \o Join([i \in 1..Len(kepts) |-> JsonRecord(BaseRow(i), kepts[i])],
          <<CH.comma>>)
  \o <<CH.rbrack>>

KeptChoices == UNION {[1..n -> KeptFields] : n \in 1..MaxRows}

JsonRecordInputs ==
  {JsonArray(kepts) : kepts \in KeptChoices}
  \cup {<<CH.lbrace, CH.quote>> \o EntriesKey \o <<CH.quote, CH.colon>>
        \o JsonArray(kepts) \o <<CH.rbrace>> :
          kepts \in [1..1 -> KeptFields]}

\* JSON exports whose amounts are written as strings ("3" for 3).
JsonTextRecord(row) ==
  <<CH.lbrace>>
  \o Join([c \in 1..8 |-> JsonItem(canonical_columns[c], row[c], TRUE)],
          <<CH.comma>>)
  \o <<CH.rbrace>>

JsonTextAmountInputs ==
  {<<CH.lbrack>>
   \o Join([i \in 1..n |-> JsonTextRecord(BaseRow(i))], <<CH.comma>>)
   \o <<CH.rbrack>> : n \in 1..MaxRows}

\* JSON documents of other shapes: an array of numbers ("[1,2]"), an array
\* of arrays ("[[1]]"), and objects whose entries field is null or a
\* number.
JsonShapeInputs ==
  { <<CH.lbrack, 49, CH.comma, 50, CH.rbrack>>,
    <<CH.lbrack, CH.lbrack, 49, CH.rbrack, CH.rbrack>>,
    <<CH.lbrace, CH.quote>> \o EntriesKey
      \o <<CH.quote, CH.colon, 110, 117, 108, 108, CH.rbrace>>,
    <<CH.lbrace, CH.quote>> \o EntriesKey
      \o <<CH.quote, CH.colon, 53, CH.rbrace>> }

\* JSON texts that open RecursionLimit arrays one in another: the opening
\* brackets alone, and the brackets with their closing brackets.
DeepJsonInputs ==
  { [i \in 1..RecursionLimit |-> CH.lbrack],
    [i \in 1..(2 * RecursionLimit) |->
       IF i <= RecursionLimit THEN CH.lbrack ELSE CH.rbrack] }

\* Uploads longer than ReadSize: "<a>" and the letter x up to ReadSize
\* characters, then "</a>" or "y"; and the letter a up to ReadSize - 1
\* bytes, then the character U+00E9, whose two bytes in UTF-8 lie across
\* the end of the first ReadSize bytes.
Padded(head, fill) ==
  [i \in 1..ReadSize |-> IF i <= Len(head) THEN head[i] ELSE fill]

LongInputs ==
  { Padded(<<CH.lt, CH.a, CH.gt>>, 120) \o <<CH.lt, CH.slash, CH.a, CH.gt>>,
    Padded(<<CH.lt, CH.a, CH.gt>>, 120) \o <<121>>,
    SubSeq(Padded(<<>>, CH.a), 1, ReadSize - 1) \o <<195, 169>> }

\* Bytes that are not UTF-8 and start with no magic: a byte that begins no
\* character, a character cut short, the same after delimited text, and a
\* magic that is not at the start.
NonUtf8Inputs ==
  { <<255>>, <<195>>,
    <<CH.a, CH.comma, CH.a, CH.lf, CH.a, CH.comma, CH.a, 195>>,
    <<255>> \o ZipMagic }

Uploads ==
  RawInputs \cup MagicInputs \cup LineInputs \cup ExtendedCsvInputs
  \cup PartialCsvInputs \cup SimpleCsvInputs \cup JsonInputs
  \cup NoEntryXmlInputs \cup EntryXmlInputs \cup StaircaseInputs
  \cup TwoLineDocuments \cup OddEntryXmlInputs \cup FixedWidthInputs
  \cup JsonRecordInputs \cup JsonTextAmountInputs \cup JsonShapeInputs
  \cup DeepJsonInputs \cup LongInputs \cup NonUtf8Inputs \cup WideFwfInputs

\* ------------------------------------------------------------------------
\* scrape_standards (src/scraper.py, lines 160-229) and the table
\* standards_content (src/database.py, lines 150-166, 235-242).

\* A moment is [h, us]: whole hours since the start, and the microsecond
\* part of the second, which is either zero or not.
Micros == {0, 1}

Midnight == [h |-> 0, us |-> 1]

\* str(datetime), as sqlite3 stores a datetime: the fraction is written
\* only when the microsecond is not zero.
StrOfDatetime(t) ==
  [seconds |-> t.h, fraction |-> IF t.us = 0 THEN <<>> ELSE <<t.us>>]

\* datetime.strptime(text, '%Y-%m-%d %H:%M:%S.%f'), line 167: ValueError
\* for a text without fraction.
Strptime(text) ==
  IF text.fraction = <<>> THEN [ok |-> FALSE, t |-> Midnight]
  ELSE [ok |-> TRUE, t |-> [h |-> text.seconds, us |-> text.fraction[1]]]

\* The order of the stored texts (MAX of SQLite compares them as text).
TextLeq(a, b) ==
  \/ a.seconds < b.seconds
  \/ a.seconds = b.seconds
       /\ (a.fraction = <<>> \/ (b.fraction # <<>>
                                  /\ a.fraction[1] <= b.fraction[1]))

\* timedelta(hours=24), line 168.
DayHours == 24

\* datetime.now() - last_update_time < timedelta(hours=24), line 168.
Younger(last, t) ==
  \/ t.h - last.h < DayHours
  \/ t.h - last.h = DayHours /\ t.us < last.us

\* The table standards_content: a row for every url saved.
NoStandards == << >>

Urls(table) == {table[i].url : i \in 1..Len(table)}

\* save_standard_content(url, content, source), lines 150-166: a new row,
\* or on a url that is there its content and last_updated replaced (its
\* source kept); last_updated is the moment of the call.
save_standard_content(table, url, content, source, t) ==
  IF url \in Urls(table)
  THEN [i \in 1..Len(table) |->
          IF table[i].url = url
          THEN [table[i] EXCEPT !.content = content,
                                !.last_updated = StrOfDatetime(t)]
          ELSE table[i]]
  ELSE Append(table, [url |-> url, content |-> content, source |-> source,
                      last_updated |-> StrOfDatetime(t)])

\* get_standards_last_update(), lines 235-242: MAX(last_updated), None on
\* an empty table.
NoUpdate == [seconds |-> -1, fraction |-> <<>>]

get_standards_last_update(table) ==
  IF table = <<>> THEN NoUpdate
  ELSE LET stamps == {table[i].last_updated : i \in 1..Len(table)}
       IN CHOOSE m \in stamps : \A x \in stamps : TextLeq(x, m)

\* Lines 19-58.
FALLBACK_STANDARDS ==
  << [url |-> "https://www.mf.uz/media/file/state/method/BHMS/eng/1.pdf",
      content |-> "NAS 1", source |-> "fallback"],
     [url |-> "https://www.mf.uz/media/file/state/method/BHMS/eng/21.pdf",
      content |-> "NAS 21", source |-> "fallback"] >>

\* The links the two sites may give: one of nsbu.uz, one of buxgalter.uz.
NsbuLink == "https://nsbu.uz/standards/1"

BuxgalterLink == "https://buxgalter.uz/documents/law"

\* Line 197.
SourceOf(link) == IF link = NsbuLink THEN "nsbu.uz" ELSE "buxgalter.uz"

\* What happens to a link in lines 188-196: fetch_url returns None, extract
\* returns no text, extract returns a text, or one of them raises.
PageOutcomes == {"no download", "no text", "text", "raises"}

RECURSIVE ScrapeLinks(_, _, _, _)
\* Lines 184-215 on the links in order: every link whose text was
\* extracted is saved and then appended to the standards; done holds the
\* standards, the table and the urls saved so far.
ScrapeLinks(links, pages, done, t) ==
  IF links = <<>> THEN done
  ELSE IF pages[links[1]] = "text"
  THEN ScrapeLinks(Tail(links), pages,
         [table |-> save_standard_content(done.table, links[1], "text",
                                          SourceOf(links[1]), t),
          saved |-> done.saved \cup {links[1]},
          standards |-> Append(done.standards,
                               [url |-> links[1], content |-> "text",
                                source |-> SourceOf(links[1])])], t)
  ELSE ScrapeLinks(Tail(links), pages, done, t)

\* Lines 218-226: the fallback standards saved one by one.
SaveFallback(table, t) ==
  save_standard_content(
    save_standard_content(table, FALLBACK_STANDARDS[1].url,
                          FALLBACK_STANDARDS[1].content,
                          FALLBACK_STANDARDS[1].source, t),
    FALLBACK_STANDARDS[2].url, FALLBACK_STANDARDS[2].content,
    FALLBACK_STANDARDS[2].source, t)

\* The record of a call: its arguments and what it read (force_update,
\* the moment, the last update found, the links in the order they were
\* taken, what every link gave), and what it did (returned or raised, the
\* list returned, the urls requested, the urls saved).
NoScrape ==
  [called |-> FALSE, force_update |-> FALSE, at |-> Midnight,
   last_update |-> NoUpdate, links |-> <<>>, extracted |-> {},
   outcome |-> "none", standards |-> <<>>, fetched |-> {}, saved |-> {}]

\* The two link pages (lines 173-176).
LinkPages == {"nsbu.uz", "buxgalter.uz"}

\* scrape_standards(force_update), lines 160-229, at the moment t, for the
\* links all_links in the order the loop takes them and what every link
\* gives.  The result is the record of the call and the table it leaves.
scrape_standards(table, t, force_update, all_links, pages) ==
  With(get_standards_last_update(table), LAMBDA last_update :
  With([NoScrape EXCEPT !.called = TRUE, !.force_update = force_update,
                        !.at = t, !.last_update = last_update,
                        !.links = all_links,
                        !.extracted = {l \in Range(all_links) :
                                         pages[l] = "text"}],
       LAMBDA call :
    IF last_update # NoUpdate /\ ~force_update /\ ~Strptime(last_update).ok
    THEN [call |-> [call EXCEPT !.outcome = "ValueError"], table |-> table]
    ELSE IF last_update # NoUpdate /\ ~force_update
              /\ Younger(Strptime(last_update).t, t)
    THEN [call |-> [call EXCEPT !.outcome = "returned"], table |-> table]
    ELSE
      With(ScrapeLinks(all_links, pages,
                       [table |-> table, saved |-> {}, standards |-> <<>>],
                       t), LAMBDA done :
        IF done.standards = <<>>
        THEN [call |-> [call EXCEPT
                          !.outcome = "returned",
                          !.standards = FALLBACK_STANDARDS,
                          !.fetched = LinkPages \cup Range(all_links),
                          !.saved = {FALLBACK_STANDARDS[1].url,
                                     FALLBACK_STANDARDS[2].url}],
              table |-> SaveFallback(done.table, t)]
        ELSE [call |-> [call EXCEPT
                          !.outcome = "returned",
                          !.standards = done.standards,
                          !.fetched = LinkPages \cup Range(all_links),
                          !.saved = done.saved],
              table |-> done.table])))

\* ------------------------------------------------------------------------
\* The state: the uploaded stream (its bytes and read position), the last
\* call made on it, what the last detect_format call read and returned,
\* the outcome of the last read_financial_file call, the message main
\* showed last, the saved trial balances and statements (the tables
\* trial_balances and financial_statements of the database), the table
\* process_trial_balance last built a prompt from, the last call of
\* process_trial_balance, and the calls main made in its last run; the
\* table standards_content of the database, the clock, and the last call
\* of scrape_standards.
VARIABLES stream, lastOp, content_start, tag, result, message,
          trial_balances, financial_statements, prompt_df, generation, calls,
          standards_content, now, scraped

vars ==
  <<stream, lastOp, content_start, tag, result, message, trial_balances,
    financial_statements, prompt_df, generation, calls, standards_content,
    now, scraped>>

NoResult ==
  [status |-> "none", format |-> "none", parser |-> "none", kind |-> "none",
   names |-> {}, df |-> NoTable, calls |-> <<>>]

Init ==
  /\ stream \in {[bytes |-> b, pos |-> 0] : b \in Uploads}
  /\ lastOp = "none"
  /\ content_start = <<>>
  /\ tag = "none"
  /\ result = NoResult
  /\ message = "none"
  /\ trial_balances = <<>>
  /\ financial_statements = <<>>
  /\ prompt_df = NoTable
  /\ generation = NoGeneration
  /\ calls = <<>>
  /\ standards_content = NoStandards
  /\ now = Midnight
  /\ scraped = NoScrape

\* detect_format(file_obj), lines 9-57: read(4096) at the current
\* position, seek(0), return the tag.
DetectFormat ==
  /\ lastOp' = "detect_format"
  /\ content_start' = ReadPrefix(stream)
  /\ tag' = detect_format(stream)
  /\ stream' = [stream EXCEPT !.pos = 0]
  /\ UNCHANGED <<result, message, trial_balances, financial_statements,
                 prompt_df, generation, calls,
                 standards_content, now, scraped>>

\* Where the stream stands after a parser has run: the pandas readers,
\* json.load and ET.parse read the stream to its end; read_excel raises on
\* these inputs either before it reads (the engine is missing: the stream
\* was put back to its start after the format was looked at) or after
\* zipfile or xlrd has read the stream to its end.
PositionsAfter(parser, bytes) ==
  IF parser = "none" THEN {0}
  ELSE IF parser = "read_excel" THEN {0, Len(bytes)}
  ELSE {Len(bytes)}

\* read_financial_file(file_obj, filename), lines 161-196.
ReadFinancialFile ==
  /\ lastOp' = "read_financial_file"
  /\ content_start' = ReadPrefix(stream)
  /\ \E read \in {read_financial_file(stream)} :
       /\ tag' = read.format
       /\ result' = read
       /\ \E p \in PositionsAfter(read.parser, stream.bytes) :
            stream' = [stream EXCEPT !.pos = p]
  /\ UNCHANGED <<message, trial_balances, financial_statements, prompt_df,
                 generation, calls,
                 standards_content, now, scraped>>

\* What setup_knowledge_base (src/main.py, line 220) does: it raises, or
\* it returns an index, whose query will return passages.
SetUps == {"raises", "answering"}

\* The replies main is run with: the call raises, or the reply is an
\* object with the three keys.
MainReplies ==
  {r \in Replies : r.kind = "raises" \/ r.keys = required_keys}

\* One run of main's upload handler (src/main.py, lines 214-294) on the
\* uploaded stream, for every outcome of setup_knowledge_base, of the
\* knowledge-base query and of the chat completion.
GenerateStatements ==
  /\ Len(trial_balances) < MaxSaves
  /\ lastOp' = "main"
  /\ content_start' = ReadPrefix(stream)
  /\ \E read \in {read_financial_file(stream)} :
       /\ tag' = read.format
       /\ result' = read
       /\ \E p \in PositionsAfter(read.parser, stream.bytes) :
            stream' = [stream EXCEPT !.pos = p]
       /\ \E knowledge_base \in SetUps, reply \in MainReplies :
            \E out \in {main(read, trial_balances, financial_statements,
                             prompt_df, knowledge_base, reply)} :
              /\ message' = out.message
              /\ trial_balances' = out.trial_balances
              /\ financial_statements' = out.financial_statements
              /\ prompt_df' = out.prompt_df
              /\ generation' = out.generation
              /\ calls' = out.calls
  /\ UNCHANGED <<standards_content, now, scraped>>

Next == DetectFormat \/ ReadFinancialFile \/ GenerateStatements

Spec == Init /\ [][Next]_vars

\* ------------------------------------------------------------------------
\* process_trial_balance called on its own.

\* table without the column col.
DropColumn(table, col) ==
  With(SelectSeq([c \in 1..Len(table.cols) |-> c],
                 LAMBDA c : table.cols[c] # col), LAMBDA kept :
    [cols |-> [k \in 1..Len(kept) |-> table.cols[kept[k]]],
     rows |-> [r \in 1..Len(table.rows) |->
                 [k \in 1..Len(kept) |-> table.rows[r][kept[k]]]]])

\* The tables read_financial_file returns for the extended-schema files.
ReturnedTables ==
  {read.df : read \in {r \in {read_financial_file(Fresh(b)) :
                                 b \in ExtendedCsvInputs} : r.status = "ok"}}

\* The tables process_trial_balance is called with: the returned tables,
\* the same without one of the columns the prompt needs, and a table
\* without columns.
ProcessTables ==
  ReturnedTables
  \cup {DropColumn(t, c) : t \in ReturnedTables, c \in prompt_columns}
  \cup {NoTable}

\* A call that is about to be made, with its knowledge base and the reply
\* the chat completion will give.
PendingCall(knowledge_base, reply) ==
  [NoGeneration EXCEPT !.knowledge_base = knowledge_base, !.reply = reply]

\* The caller holds a table (prompt_df) and is about to call
\* process_trial_balance on it.
InitProcess ==
  /\ stream = Fresh(<<>>)
  /\ lastOp = "none"
  /\ content_start = <<>>
  /\ tag = "none"
  /\ result = NoResult
  /\ message = "none"
  /\ trial_balances = <<>>
  /\ financial_statements = <<>>
  /\ prompt_df \in ProcessTables
  /\ generation \in {PendingCall(knowledge_base, reply) :
                        knowledge_base \in KnowledgeBases, reply \in Replies}
  /\ calls = <<>>
  /\ standards_content = NoStandards
  /\ now = Midnight
  /\ scraped = NoScrape

\* process_trial_balance(df, knowledge_base), lines 14-97, on the table
\* the caller holds; the call changes that table in place (line 37).
ProcessTrialBalance ==
  /\ ~generation.called
  /\ lastOp' = "process_trial_balance"
  /\ \E processed \in {process_trial_balance(prompt_df,
                                               generation.knowledge_base,
                                               generation.reply)} :
       /\ generation' = GenerationOf(prompt_df, generation.knowledge_base,
                                     generation.reply, processed)
       /\ prompt_df' = processed.df
  /\ UNCHANGED <<stream, content_start, tag, result, message,
                 trial_balances, financial_statements, calls,
                 standards_content, now, scraped>>

NextProcess == ProcessTrialBalance

SpecProcess == InitProcess /\ [][NextProcess]_vars

\* ------------------------------------------------------------------------
\* The standards scraper.

\* The days the clock may advance.
MaxDays == 1

\* The lists all_links may be (line 179): the links of the two sites
\* without repeats, in any order.
LinkLists ==
  {<<>>, <<NsbuLink>>, <<BuxgalterLink>>, <<NsbuLink, BuxgalterLink>>,
   <<BuxgalterLink, NsbuLink>>}

InitScrape ==
  /\ stream = Fresh(<<>>)
  /\ lastOp = "none"
  /\ content_start = <<>>
  /\ tag = "none"
  /\ result = NoResult
  /\ message = "none"
  /\ trial_balances = <<>>
  /\ financial_statements = <<>>
  /\ prompt_df = NoTable
  /\ generation = NoGeneration
  /\ calls = <<>>
  /\ standards_content = NoStandards
  /\ now \in {[h |-> 0, us |-> us] : us \in Micros}
  /\ scraped = NoScrape

\* Time passes: a day, to a moment whose microsecond is zero or not.
Advance ==
  /\ now.h < MaxDays * DayHours
  /\ now' \in {[h |-> now.h + DayHours, us |-> us] : us \in Micros}
  /\ lastOp' = "advance"
  /\ UNCHANGED <<stream, content_start, tag, result, message,
                 trial_balances, financial_statements, prompt_df,
                 generation, calls, standards_content, scraped>>

\* scrape_standards(force_update), lines 160-229.
ScrapeStandards ==
  /\ lastOp' = "scrape_standards"
  /\ \E force_update \in BOOLEAN, all_links \in LinkLists :
     \E pages \in [Range(all_links) -> PageOutcomes] :
       \E done \in {scrape_standards(standards_content, now, force_update,
                                      all_links, pages)} :
         /\ scraped' = done.call
         /\ standards_content' = done.table
  /\ UNCHANGED <<stream, content_start, tag, result, message,
                 trial_balances, financial_statements, prompt_df,
                 generation, calls, now>>

NextScrape == Advance \/ ScrapeStandards

SpecScrape == InitScrape /\ [][NextScrape]_vars

\* ------------------------------------------------------------------------
\* Properties of detect_format.

\* The text the last detect_format call decoded.
Decoded == Utf8Decode(content_start)

\* The last call started at the beginning of the upload and its
\* detect_format read the upload whole.
ReadWhole == tag # "none" /\ content_start = stream.bytes

\* C1: after detect_format returns, the stream's read position is what it
\* was before the call and the stream's bytes are unchanged, for every
\* stream and every starting position.
C1_StreamUntouched == [][DetectFormat => stream' = stream]_vars

\* C2: for every input whose first bytes are the ZIP magic or the OLE2
\* magic, detect_format returns the spreadsheet tag, whatever bytes follow.
C2_MagicIsSpreadsheet ==
  (tag # "none" /\ ExcelCheck(content_start)) => tag = "excel"

\* Delimited text: it decodes as UTF-8, it has at least two lines that are
\* not empty, and some delimiter occurs the same number of times, at least
\* once, in every such line.
Delimiters == {CH.comma, CH.tab, 59, 124}

WellFormedDelimited(bytes) ==
  With(Utf8Decode(bytes), LAMBDA dec :
    /\ dec.ok
    /\ With(NonEmpty(Split(dec.str, CH.lf)), LAMBDA lines :
         /\ Len(lines) >= 2
         /\ \E d \in Delimiters :
              /\ Count(lines[1], d) >= 1
              /\ \A i \in 1..Len(lines) :
                   Count(lines[i], d) = Count(lines[1], d)))

CheckOrder == <<"json", "xml", "csv", "excel", "fixed-width", "unknown">>

CheckMatches(bytes) ==
  With(Utf8Decode(bytes), LAMBDA dec :
    << dec.ok /\ JsonCheck(dec.str), dec.ok /\ XmlCheck(dec.str),
       dec.ok /\ CsvCheck(dec.str), ExcelCheck(bytes),
       dec.ok /\ FixedWidthCheck(dec.str), TRUE >>)

Read == lastOp = "read_financial_file"

\* The number of data rows of a delimited text whose lines all end in LF:
\* every line but the header.
DataRows(bytes) == Count(bytes, CH.lf) - 1

\* C5: under the simple schema, a delimited input whose header is exactly
\* Account,Debit,Credit and whose rows have a non-empty Account and numeric
\* Debit and Credit is read without failure into a table with one row per
\* input row.
C5_SimpleSchemaRead ==
  (Read /\ ReadWhole /\ stream.bytes \in SimpleCsvInputs) =>
    /\ result.status = "ok"
    /\ Len(result.df.rows) = DataRows(stream.bytes)

\* Every required column is in the table and no Account_code or
\* Account_name cell is empty.
WellLabelled(df) ==
  /\ required_columns \subseteq Range(df.cols)
  /\ \A r \in 1..Len(df.rows) :
       /\ ~IsNa(Column(df, Names.Account_code)[r])
       /\ ~IsNa(Column(df, Names.Account_name)[r])

\* Some cell of a numeric column is no number.
HasNonNumericCell(df) ==
  \E i \in 1..Len(numeric_columns) : \E r \in 1..Len(df.rows) :
    ToNumericCoerce(Column(df, numeric_columns[i])[r]).t = "nan"

\* C6: for an input with all the extended-schema columns, a cell of a
\* numeric column that does not parse as a number (the text N/A) is 0 in
\* the returned table; the read does not fail because of it.
C6_NonNumericBecomesZero ==
  (Read /\ ReadWhole /\ result.parser = "read_csv") =>
    With(read_csv(stream.bytes), LAMBDA parsed :
      (parsed.ok /\ WellLabelled(parsed.df) /\ HasNonNumericCell(parsed.df))
        => /\ result.status = "ok"
           /\ result.df = CoerceNumericColumns(parsed.df))

\* The bytes are a well-formed XML document without any entry element.
NoEntryDocument(bytes) ==
  With(Utf8Decode(bytes), LAMBDA dec :
    /\ dec.ok
    /\ With(XmlParse(dec.str), LAMBDA tree :
         tree.ok /\ FindAllEntries(tree.el) = <<>>))

\* C7: reading a well-formed XML document that contains no entry element
\* yields an empty table (zero rows) and not a failure.
C7_NoEntryIsEmptyTable ==
  (Read /\ ReadWhole /\ NoEntryDocument(stream.bytes)) =>
    /\ result.status = "ok"
    /\ result.df.rows = <<>>

\* The bytes are a JSON document: an object whose entries field is an
\* empty array.
EmptyEntriesDocument(bytes) ==
  With(Utf8Decode(bytes), LAMBDA dec :
    /\ dec.ok
    /\ With(JsonLoads(dec.str), LAMBDA data :
         /\ data.ok
         /\ data.val.t = "obj"
         /\ JsonHas(data.val, EntriesKey)
         /\ JsonGet(data.val, EntriesKey).t = "arr"
         /\ JsonGet(data.val, EntriesKey).items = <<>>))

\* C8: reading a JSON document that is an object whose entries field is an
\* empty array yields a table without rows and not a failure.
C8_EmptyEntriesIsEmptyTable ==
  (Read /\ ReadWhole /\ EmptyEntriesDocument(stream.bytes)) =>
    /\ result.status = "ok"
    /\ result.parser = "parse_json"
    /\ result.df.rows = <<>>
    /\ Range(result.df.cols) = required_columns

\* A document with a field beside the empty entries array has been read
\* into a table without rows.
C8_Witness ==
  /\ Read
  /\ ReadWhole
  /\ EmptyEntriesDocument(stream.bytes)
  /\ Len(JsonLoads(Decoded.str).val.items) = 2
  /\ result.status = "ok"
  /\ result.df.rows = <<>>

\* C9: whenever the parsed table lacks one or more required columns,
\* validation fails and the failure names every missing column and no
\* column that is present.
C9_MissingColumnsNamed ==
  (Read /\ result.parser # "none") =>
    With(RunParser(result.parser, stream.bytes), LAMBDA parsed :
      (parsed.ok /\ required_columns \ Range(parsed.df.cols) # {})
        => /\ result.status = "error"
           /\ result.kind = "missing_columns"
           /\ result.names = required_columns \ Range(parsed.df.cols))

\* A table that has some of the required columns and lacks several has
\* been refused.
C9_Witness ==
  /\ Read
  /\ result.kind = "missing_columns"
  /\ Cardinality(result.names) \in 2..7

\* C10: when no check of detect_format matches, it returns unknown, and
\* read_financial_file on that input fails with the unsupported-format
\* failure without invoking any parser.
NoCheckMatches(bytes) ==
  \E matches \in {CheckMatches(bytes)} :
    \A k \in 1..(Len(CheckOrder) - 1) : ~matches[k]

C10_UnknownIsUnsupported ==
  (tag \in Tags /\ NoCheckMatches(content_start)) =>
    /\ tag = "unknown"
    /\ Read => /\ result.status = "error"
               /\ result.format = "unknown"
               /\ result.kind = "Unsupported file format"
               /\ result.parser = "none"
               /\ result.df = NoTable

\* A text of five lines of five different lengths has been refused as
\* unsupported.
C10_Witness ==
  /\ Read
  /\ stream.bytes = Staircase(5)
  /\ tag = "unknown"
  /\ result.kind = "Unsupported file format"

\* ------------------------------------------------------------------------
\* Properties of the returned table.

Returned == Read /\ result.status = "ok"

\* A null or empty identifier: NaN, None or the empty text.
IsEmptyIdentifier(cell) == IsNa(cell) \/ cell = StrCell(<<>>)

\* C11: in every table the reader returns, no row has a null or empty
\* Account_code or Account_name (an input row without identifier makes the
\* whole read fail).
C11_IdentifiersNeverEmpty ==
  Returned =>
    \A r \in 1..Len(result.df.rows) :
      /\ ~IsEmptyIdentifier(Column(result.df, Names.Account_code)[r])
      /\ ~IsEmptyIdentifier(Column(result.df, Names.Account_name)[r])

\* The documents of the input families whose records are known, each with
\* the identifiers (Account_code, Account_name) of its records in file
\* order; an identifier the record does not give is the empty text.  Lines
\* that hold nothing but spaces are no records.
ExtendedRowSets ==
  {BaseRows(n) : n \in 0..MaxRows}
  \cup UNION {{[BaseRows(n) EXCEPT ![r][c] = v] :
                 r \in 1..n, c \in 1..8, v \in OddTexts} : n \in 1..MaxRows}

Identifiers(rows) == [r \in 1..Len(rows) |-> <<rows[r][1], rows[r][2]>>]

KeptIdentifiers(kepts) ==
  [i \in 1..Len(kepts) |->
     [c \in 1..2 |-> IF c \in kepts[i] THEN BaseRow(i)[c] ELSE <<>>]]

FwfIdentifiers(lines) ==
  SelectSeq([i \in 1..Len(lines) |->
               <<StripBlanks(SubSeq(lines[i], 1, 10)),
                 StripBlanks(SubSeq(lines[i], 11, Len(lines[i])))>>],
            LAMBDA id : id # <<<<>>, <<>>>>)

RecordDocs ==
  {[bytes |-> CsvText(canonical_columns, rows), ids |-> Identifiers(rows)] :
     rows \in ExtendedRowSets}
  \cup {[bytes |-> Element(RootTag,
                           Join([i \in 1..n |-> EntryElement(BaseRow(i))],
                                <<>>)),
         ids |-> Identifiers(BaseRows(n))] : n \in 1..MaxRows}
  \cup {[bytes |-> JsonArray(kepts), ids |-> KeptIdentifiers(kepts)] :
          kepts \in KeptChoices}
  \cup {[bytes |-> Join(lines, <<CH.lf>>), ids |-> FwfIdentifiers(lines)] :
          lines \in UNION {[1..n -> FwfLines] : n \in 1..MaxRows}}

\* The cell holds the text, as a text or as the number it spells.
Matches(cell, text) == cell = StrCell(text) \/ cell = NumberOf(text)

\* The table has one row per record, in the records' order.
RowsAre(df, ids) ==
  /\ Len(df.rows) = Len(ids)
  /\ \A r \in 1..Len(ids) :
       /\ ids[r][1] # <<>> =>
            Matches(Column(df, Names.Account_code)[r], ids[r][1])
       /\ ids[r][2] # <<>> =>
            Matches(Column(df, Names.Account_name)[r], ids[r][2])

\* C12: a successful read returns exactly one row per input record, in
\* file order; no record is dropped, duplicated or reordered, and a record
\* that fails validation fails the whole read instead of being left out.
C12_OneRowPerRecord ==
  (Returned /\ ReadWhole) =>
    \A d \in RecordDocs :
      d.bytes = stream.bytes => RowsAre(result.df, d.ids)

\* A document of two records has been read into a table.
C12_Witness ==
  /\ Returned
  /\ ReadWhole
  /\ \E d \in RecordDocs :
       d.bytes = stream.bytes /\ Len(d.ids) = 2 /\ d.ids[1] # d.ids[2]

\* A finite number.
IsFinite(cell) == cell.t \in {"int", "float"}

\* C13: in every table read_financial_file returns, every row has the
\* eight extended-schema fields and each of the six numeric fields holds a
\* finite number (never absent, NaN, a text or an infinity).
C13_NumericFieldsFinite ==
  Returned =>
    /\ required_columns \subseteq Range(result.df.cols)
    /\ \A r \in 1..Len(result.df.rows) : \A i \in 1..Len(numeric_columns) :
         IsFinite(Column(result.df, numeric_columns[i])[r])

\* C14: validation and coercion is a fixed point: validate_dataframe and
\* the numeric coercion applied to a table read_financial_file returned
\* succeed and yield that same table.
C14_CoercionFixedPoint ==
  Returned => ValidateAndCoerce(result.df) = ParseOk(result.df)

\* A table has been returned whose amounts the coercion had changed (they
\* were read as texts).
C14_Witness ==
  /\ Returned
  /\ ReadWhole
  /\ RunParser(result.parser, stream.bytes).df # result.df

\* ------------------------------------------------------------------------
\* Properties of the upload handler.

\* C15: on any failure of read_financial_file the call returns no table,
\* and main saves nothing derived from that upload (save_trial_balance and
\* save_statements are not called) and shows the error.
C15_FailureSavesNothing ==
  [][(lastOp' \in {"read_financial_file", "main"}
      /\ result'.status \in {"error", "raised"})
     => /\ result'.df = NoTable
        /\ UNCHANGED <<trial_balances, financial_statements>>
        /\ lastOp' = "main" => message' = "error"]_vars

\* main has run on an upload whose read failed.
C15_Witness ==
  /\ lastOp = "main"
  /\ result.status = "error"
  /\ message = "error"
  /\ trial_balances = <<>>
  /\ financial_statements = <<>>

\* ------------------------------------------------------------------------
\* Properties of repeated calls.

\* C16: the reader is a pure function of the upload's bytes: the outcome of
\* every call, a second call on the same stream included, is the outcome
\* of a call on a fresh stream with the same bytes.
C16_OutcomeOfBytesOnly ==
  lastOp \in {"read_financial_file", "main"} =>
    result = read_financial_file([bytes |-> stream.bytes, pos |-> 0])

\* ------------------------------------------------------------------------
\* Properties of process_trial_balance.

\* main has generated statements from the table it read, and the prompt
\* was built.
Generated == lastOp = "main" /\ message = "success" /\ prompt_df # NoTable

\* C17: the table the statements are generated from carries, in every row,
\* net_balance equal to end_of_period_debit minus end_of_period_credit of
\* that row, and every other field of every row is as it was read.
C17_NetBalanceDerived ==
  Generated =>
    /\ prompt_df.cols = Append(result.df.cols, NetBalance)
    /\ Len(prompt_df.rows) = Len(result.df.rows)
    /\ \A r \in 1..Len(prompt_df.rows) :
         /\ SubSeq(prompt_df.rows[r], 1, Len(result.df.cols))
              = result.df.rows[r]
         /\ With(Column(result.df, Names.end_of_period_debit)[r], LAMBDA d :
            With(Column(result.df, Names.end_of_period_credit)[r], LAMBDA c :
              (d.t = "int" /\ c.t = "int") =>
                Column(prompt_df, NetBalance)[r] = IntCell(d.v - c.v)))

\* Statements have been generated from a table of two rows whose net
\* balances differ.
C17_Witness ==
  /\ Generated
  /\ Len(prompt_df.rows) = 2
  /\ Column(prompt_df, NetBalance)[1].t = "int"
  /\ Column(prompt_df, NetBalance)[2].t = "int"
  /\ Column(prompt_df, NetBalance)[1] # Column(prompt_df, NetBalance)[2]
  /\ Column(prompt_df, NetBalance)[1] # Zero

\* ------------------------------------------------------------------------
\* Properties of parse_json.

\* An array of record objects.
IsRecordArray(v) ==
  v.t = "arr" /\ \A i \in 1..Len(v.items) : v.items[i].t = "obj"

\* One of the two shapes: an array of record objects, or an object whose
\* entries field holds such an array.
AcceptedShape(v) ==
  \/ IsRecordArray(v)
  \/ v.t = "obj" /\ JsonHas(v, EntriesKey)
       /\ IsRecordArray(JsonGet(v, EntriesKey))

\* read_financial_file has handed the whole upload to parse_json.
JsonParsed == Read /\ ReadWhole /\ result.parser = "parse_json"

\* C18: parse_json accepts exactly the two shapes: every document of
\* another top-level shape is a fatal input error.
C18_OnlyTwoShapes ==
  JsonParsed =>
    (parse_json(stream.bytes).ok
       => AcceptedShape(JsonLoads(Strip(Decoded.str)).val))

\* The table pd.DataFrame made of the records of the upload, before any
\* column is added.
RecordsTable == JsonDataFrame(JsonLoads(Decoded.str).val)

\* C19: for JSON input, every canonical column the records lack is added
\* with the value zero in every row, the columns they have are kept, and
\* no lacking column makes parse_json fail.
C19_AbsentColumnsZero ==
  JsonParsed =>
    With(RecordsTable, LAMBDA records :
      records.ok =>
        With(parse_json(stream.bytes), LAMBDA parsed :
          /\ parsed.ok
          /\ Len(parsed.df.rows) = Len(records.df.rows)
          /\ required_columns \subseteq Range(parsed.df.cols)
          /\ \A i \in 1..Len(canonical_columns) :
               \A r \in 1..Len(parsed.df.rows) :
                 Column(parsed.df, canonical_columns[i])[r]
                   = IF canonical_columns[i] \in Range(records.df.cols)
                     THEN Column(records.df, canonical_columns[i])[r]
                     ELSE Zero))

\* Records that have some canonical columns and lack others have been
\* parsed.
C19_Witness ==
  /\ JsonParsed
  /\ RecordsTable.ok
  /\ Len(RecordsTable.df.rows) = 2
  /\ Names.Account_code \in Range(RecordsTable.df.cols)
  /\ Names.end_of_period_debit \notin Range(RecordsTable.df.cols)

\* ------------------------------------------------------------------------
\* Properties of parse_xml.

\* read_financial_file has handed the whole upload to parse_xml.
XmlParsed == Read /\ ReadWhole /\ result.parser = "parse_xml"

\* The entry elements of the upload, in document order.
Entries == FindAllEntries(XmlParse(Decoded.str).el)

\* Every numeric child the entry has is empty or holds a number.
AmountsWellFormed(entry) ==
  \A c \in 3..Len(child_tags) :
    HasChild(entry, child_tags[c]) =>
      \/ ChildText(entry, child_tags[c]) = <<>>
      \/ NumberOf(Strip(ChildText(entry, child_tags[c]))).t # "notnum"

\* C20: for every entry element parse_xml produces one record; a missing
\* child defaults to the empty text (account_code, account_name) or to
\* zero (the six amounts), a present child supplies its text under the
\* mapped column, and a present but empty child does not make the parse
\* fail.
C20_EntryDefaults ==
  (XmlParsed /\ \A e \in 1..Len(Entries) : AmountsWellFormed(Entries[e])) =>
    With(parse_xml(stream.bytes), LAMBDA parsed :
      /\ parsed.ok
      /\ Len(parsed.df.rows) = Len(Entries)
      /\ \A e \in 1..Len(Entries) : \A c \in 1..Len(child_tags) :
           With(Column(parsed.df, canonical_columns[c])[e], LAMBDA cell :
             IF ~HasChild(Entries[e], child_tags[c])
             THEN cell = (IF c <= 2 THEN StrCell(<<>>) ELSE Zero)
             ELSE With(ChildText(Entries[e], child_tags[c]), LAMBDA text :
                    text # <<>> =>
                      cell = (IF c <= 2 THEN StrCell(text)
                              ELSE NumberOf(Strip(text))))))

\* ------------------------------------------------------------------------
\* Properties of the failures.

\* C21: every failure of a parser reaches the caller of
\* read_financial_file as the ValueError of line 196 with the cause in its
\* message, and no exception of another type leaves read_financial_file.
C21_OnlyValueErrorEscapes ==
  Read =>
    /\ result.status \in {"ok", "error"}
    /\ (result.parser # "none"
        /\ ~RunParser(result.parser, stream.bytes).ok) =>
         /\ result.status = "error"
         /\ result.kind = RunParser(result.parser, stream.bytes).kind

\* C22: detect_format is total: for every input it raises no exception
\* and returns one of the six tags.
C22_DetectFormatTotal == lastOp = "detect_format" => tag \in Tags

\* ------------------------------------------------------------------------
\* Properties of the sampled prefix.

\* The first ReadSize bytes of an upload.
FirstBytes(bytes) == SubSeq(bytes, 1, Min(ReadSize, Len(bytes)))

\* Two uploads have the same first ReadSize bytes; an upload shorter than
\* ReadSize shares them only with itself.
AgreeOnFirstBytes(a, b) ==
  IF Len(a) < ReadSize \/ Len(b) < ReadSize THEN a = b
  ELSE FirstBytes(a) = FirstBytes(b)

FirstLines(content_str) ==
  LET all == Split(content_str, CH.lf)
  IN SubSeq(all, 1, Min(SampledLines, Len(all)))

\* All the lines that are not blank have one length.
NonBlankLinesSameLength(lines) ==
  \A i, j \in 1..Len(lines) :
    (Strip(lines[i]) # <<>> /\ Strip(lines[j]) # <<>>)
      => Len(lines[i]) = Len(lines[j])

\* detect_format comes to its fixed-width check: the prefix is text and
\* none of the four earlier checks returned.
ReachesFixedWidthCheck(bytes) ==
  \E dec \in {Utf8Decode(bytes)} :
    /\ dec.ok
    /\ ~JsonCheckRaises(dec.str)
    /\ ~JsonCheck(dec.str)
    /\ ~XmlCheck(dec.str)
    /\ ~CsvCheck(dec.str)
    /\ ~ExcelCheck(bytes)

\* C24: when detect_format comes to its fixed-width check, it returns
\* fixed-width exactly when all the lines among the first five that are
\* not blank have the same length, a blank first line taking no part in
\* the comparison.
C24_FixedWidthIffNonBlankLinesAgree ==
  (lastOp = "detect_format" /\ ReachesFixedWidthCheck(content_start)) =>
    (tag = "fixed-width"
       <=> NonBlankLinesSameLength(FirstLines(Utf8Decode(content_start).str)))

\* C25: when the bytes detect_format read are not UTF-8 text (a valid file
\* whose character is cut at the end of the read included), it returns
\* excel if they start with one of the two magics and unknown otherwise,
\* never json, xml, csv or fixed-width.
C25_UndecodablePrefixIsExcelOrUnknown ==
  (lastOp = "detect_format" /\ ~Utf8Decode(content_start).ok) =>
    tag = IF ExcelCheck(content_start) THEN "excel" ELSE "unknown"

\* A file that is UTF-8 as a whole, longer than one read, whose last
\* character lies across the end of the read: it is tagged unknown.
C25_Witness ==
  /\ lastOp = "detect_format"
  /\ Len(stream.bytes) > ReadSize
  /\ content_start = FirstBytes(stream.bytes)
  /\ \E whole \in {Utf8Decode(stream.bytes)}, dec \in {Utf8Decode(content_start)} :
       whole.ok /\ ~dec.ok
  /\ ~ExcelCheck(content_start)
  /\ tag = "unknown"

\* ------------------------------------------------------------------------
\* The fixed-width parser and the slices that are no numbers.

\* The slices of the lines read_fwf keeps, row by row.
FwfRecords(bytes) ==
  With(TextLines(Utf8Decode(bytes).str), LAMBDA lines :
    NonEmptyRecords([i \in 1..Len(lines) |->
                       [c \in 1..Len(widths) |-> FwfSlice(lines[i], c)]]))

\* C26: when read_financial_file has run the fixed-width parser, every
\* slice of a numeric column that is no number (blank or other text) is
\* zero in the parsed table, and the read does not fail for a value that
\* is not numeric.
C26_UnparseableSliceBecomesZero ==
  (Read /\ result.parser = "parse_fixed_width"
        /\ Utf8Decode(stream.bytes).ok) =>
    \E parsed \in {parse_fixed_width(stream.bytes)},
       records \in {FwfRecords(stream.bytes)} :
      /\ parsed.ok
      /\ \A r \in 1..Len(records), c \in 3..Len(widths) :
           NumberOf(records[r][c]).t = "notnum"
             => parsed.df.rows[r][c] = Zero
      /\ result.kind # "not_numeric"

\* ------------------------------------------------------------------------
\* The calls of one read.
Parsers ==
  {"read_csv", "read_excel", "parse_json", "parse_xml", "parse_fixed_width"}

\* C27: a call of read_financial_file calls detect_format once, first, and
\* then at most one parser, the one the tag selects; when that parser or
\* the validation of its table fails, the call fails and no other parser
\* has run.
C27_OneDetectionOneParser ==
  Read =>
    /\ result.calls # <<>> /\ result.calls[1] = "detect_format"
    /\ Count(result.calls, "detect_format") = 1
    /\ \A i, j \in 1..Len(result.calls) :
         (result.calls[i] \in Parsers /\ result.calls[j] \in Parsers)
           => (i = j /\ result.calls[i] = ParserFor(tag))
    /\ \E parsed \in {RunParser(result.parser, stream.bytes)} :
         (result.parser # "none"
            /\ (~parsed.ok \/ ~validate_dataframe(parsed.df).ok))
           => result.status = "error"

\* A read fails in the parser the tag selected, or in the validation of
\* its table, on bytes that read_csv reads into a valid table.
C27_Witness ==
  /\ Read
  /\ result.status = "error"
  /\ result.parser \in Parsers \ {"read_csv"}
  /\ Len(result.calls) >= 2
  /\ \E again \in {read_csv(stream.bytes)} :
       again.ok /\ validate_dataframe(again.df).ok

\* ------------------------------------------------------------------------
\* Properties of a call of process_trial_balance.

Processed == lastOp = "process_trial_balance" /\ generation.called

\* The table has the columns the call reads and the reply is an object:
\* nothing but the knowledge-base query can fail.
GenerationCanRun ==
  /\ prompt_columns \subseteq Range(generation.columns)
  /\ generation.reply.kind = "object"

\* C28: process_trial_balance never raises and always returns statements
\* with the keys balance_sheet, income_statement and cash_flow; when only
\* the knowledge-base query fails the statements are those of the reply
\* and there are no citations; when the chat completion, the parsing of
\* its reply or a column of the table fails, the three statements are
\* empty and there are no citations.
C28_NeverRaisesThreeKeys ==
  Processed =>
    /\ ~generation.raised
    /\ required_keys \subseteq DOMAIN generation.statements
    /\ (generation.knowledge_base = "failing" /\ GenerationCanRun) =>
         /\ \A k \in generation.reply.keys :
              generation.statements[k] = "reply"
         /\ generation.citations = <<>>
    /\ ~GenerationCanRun =>
         /\ generation.statements = EmptyStatements
         /\ generation.citations = <<>>

\* The query of the knowledge base failed and the reply held the three
\* statements: they are returned, without citations.
C28_Witness ==
  /\ Processed
  /\ generation.knowledge_base = "failing"
  /\ GenerationCanRun
  /\ generation.reply.keys = required_keys
  /\ generation.statements # EmptyStatements
  /\ generation.citations = <<>>

\* ------------------------------------------------------------------------
\* Properties of the Generate Statements flow.

\* The four steps of the flow, in the order of lines 217-238.
FlowSteps ==
  <<"read_financial_file", "save_trial_balance", "process_trial_balance",
    "save_statements">>

\* The last row of a table of the database.
LastRow(table) == table[Len(table)]

\* C29: a run of main calls read_financial_file, save_trial_balance,
\* process_trial_balance and save_statements in this order (a run that
\* fails stops in between); save_statements is given the id that
\* save_trial_balance returned for the same upload; and when the
\* generation failed, a financial_statements row with three empty
\* statements and that id is saved all the same.
C29_FlowOrderAndLinkage ==
  lastOp = "main" =>
    /\ \E steps \in {SelectSeq(calls, LAMBDA c : c \in Range(FlowSteps))} :
         steps = SubSeq(FlowSteps, 1, Len(steps))
    /\ "save_statements" \in Range(calls) =>
         /\ trial_balances # <<>> /\ financial_statements # <<>>
         /\ LastRow(trial_balances) = result.df
         /\ LastRow(financial_statements).trial_balance_id
              = Len(trial_balances)
    /\ (generation.called /\ generation.statements = EmptyStatements) =>
         /\ "save_statements" \in Range(calls)
         /\ LastRow(financial_statements) =
              [trial_balance_id |-> Len(trial_balances),
               balance_sheet |-> "empty", income_statement |-> "empty",
               cash_flow |-> "empty"]

\* The chat completion raised in a run of main: the trial balance is
\* saved, and a row of three empty statements is saved with its id.
C29_Witness ==
  /\ lastOp = "main"
  /\ generation.called
  /\ generation.reply.kind = "raises"
  /\ calls = <<"read_financial_file", "setup_knowledge_base",
               "save_trial_balance", "process_trial_balance",
               "save_statements">>
  /\ Len(trial_balances) = 1
  /\ financial_statements =
       <<[trial_balance_id |-> 1, balance_sheet |-> "empty",
          income_statement |-> "empty", cash_flow |-> "empty"]>>

\* ------------------------------------------------------------------------
\* Properties of scrape_standards.

Scraped == lastOp = "scrape_standards" /\ scraped.called

\* The moment a stored text stands for.
MomentOf(text) ==
  [h |-> text.seconds,
   us |-> IF text.fraction = <<>> THEN 0 ELSE text.fraction[1]]

\* The call was not forced and found a last update less than 24 hours old.
UpToDate ==
  /\ ~scraped.force_update
  /\ scraped.last_update # NoUpdate
  /\ Younger(MomentOf(scraped.last_update), scraped.at)

\* The standard is a row of the table, saved at the moment of the call.
IsSaved(standard) ==
  \E i \in 1..Len(standards_content) :
    /\ standards_content[i].url = standard.url
    /\ standards_content[i].content = standard.content
    /\ standards_content[i].last_updated = StrOfDatetime(scraped.at)

\* C30: a call of scrape_standards that is not forced and finds a last
\* update less than 24 hours old returns the empty list, requests no page
\* and saves nothing; every other call returns a list that is not empty,
\* the fallback standards when no link gave a text, and every standard of
\* the list has been saved with save_standard_content.
C30_CachedOrSavedStandards ==
  Scraped =>
    /\ scraped.outcome = "returned"
    /\ UpToDate =>
         /\ scraped.standards = <<>>
         /\ scraped.fetched = {}
         /\ scraped.saved = {}
    /\ ~UpToDate =>
         /\ scraped.standards # <<>>
         /\ scraped.extracted = {} => scraped.standards = FALLBACK_STANDARDS
         /\ \A i \in 1..Len(scraped.standards) :
              /\ scraped.standards[i].url \in scraped.saved
              /\ IsSaved(scraped.standards[i])

====
